---- MODULE Spec2Model ----
(***************************************************************************)
(* A model of the NEAT engine of src/models/neatevolve.py.                 *)
(*                                                                         *)
(* Python objects live on heaps (sequences indexed by reference, 0 is      *)
(* None), so that two names for one object (a node list shared between a   *)
(* parent and its offspring, a Connection shared through the ledger) are   *)
(* one heap cell.  Weights are kept in tenths (0.5 is 5, 1.0 is 10) and    *)
(* the compatibility distance is an exact fraction; floating-point         *)
(* rounding is outside the model.  RANDOM draws are nondeterministic       *)
(* choices.  A call that can raise returns a record whose err field names  *)
(* the exception ("" when it returned).                                    *)
(***************************************************************************)
EXTENDS Integers, Sequences, FiniteSets, TLC

VARIABLES INNOVATION,  \* the module-level counter
          nodeObj,     \* heap of Node objects: [innovation, incoming]
          listObj,     \* heap of Python lists of Node references
          connObj,     \* heap of Connection objects
          genomeObj,   \* heap of Genome objects
          generation,  \* the Generation object in use
          pc,          \* position of the caller and of advance_epoch / mutate
          last,        \* the last call: what was called and what it returned or raised
          minted,      \* every identifier taken from INNOVATION, in order
          addLog,      \* successful mutate_add_connection calls
          splitLog,    \* successful mutate_add_node calls
          used         \* how many calls, mutate_weights runs and epochs were made

vars == <<INNOVATION, nodeObj, listObj, connObj, genomeObj, generation, pc, last,
          minted, addLog, splitLog, used>>

-----------------------------------------------------------------------------
(* Bounds of the model. *)

MaxInputs == 2
MaxOutputs == 1
MaxCalls == 2
MaxMutations == 2
MaxWeightCalls == 1
MaxRandomWeights == 0
MaxLoopMutations == 1
MaxEpoch == 1
MaxGenomes == 3
MaxFitness == 1
MaxRecords == 3
MaxGenes == 3
MaxMembers == 5
MaxSpeciesGenes == 4
MaxSpecies == 3
MaxSpeciesSize == 2
MaxDisabled == 1
MaxScreenCalls == 1

(* The population size, 150 in the source, is scaled down. *)
MAX_POPULATION_SIZE == 2

(* Hyperparameters (tenths / hundredths where the source has fractions). *)

CHAMPION_THRESHOLD == 5
PRUNE_LOW_PERFORMERS_FRACTION_100 == 25
COMPATIBILITY_THRESHOLD_100 == 300
EXCESS_GENES_COEFFICIENT_100 == 100
DISJOINT_GENES_COEFFICIENT_100 == 100
WEIGHT_DIFFERENCE_COEFFICIENT_10 == 4
NORMALISE_COMPAT_DISTANCE_FOR_GENE_SIZE == FALSE
NormaliseFrom == 20
DefaultWeight == 5
SplitWeight == 10

None == 0

(* The exceptions the module raises by design are all ValueError. *)
ConflictError == "ValueError"
NotFoundError == "ValueError"

-----------------------------------------------------------------------------
(* Sequence helpers. *)

Range(s) == {s[i] : i \in 1..Len(s)}

RECURSIVE SumSeq(_)
SumSeq(s) == IF s = <<>> THEN 0 ELSE s[1] + SumSeq(Tail(s))

SetMax(S) == CHOOSE x \in S : \A y \in S : y <= x

MinOrZero(S) == IF S = {} THEN 0 ELSE CHOOSE x \in S : \A y \in S : x <= y

Abs(x) == IF x < 0 THEN -x ELSE x

Max2(a, b) == IF a >= b THEN a ELSE b

Pick(S) == CHOOSE x \in S : TRUE

(* The first index of s satisfying Test, or 0. *)
FirstIndex(s, Test(_)) == MinOrZero({i \in 1..Len(s) : Test(s[i])})

(* s[i], or None for the index 0 of a search that found nothing. *)
At(s, i) == IF i = 0 THEN None ELSE s[i]

(* All sequences that take their k-th element from sets[k]. *)
RECURSIVE SeqProduct(_)
SeqProduct(sets) ==
    IF sets = <<>> THEN {<<>>}
    ELSE {<<x>> \o rest : x \in Head(sets), rest \in SeqProduct(Tail(sets))}

RECURSIVE Repeat(_, _)
Repeat(s, n) == IF n = 0 THEN <<>> ELSE s \o Repeat(s, n - 1)

Ok(val) == [err |-> "", val |-> val]

Raise(err) == [err |-> err, val |-> <<>>]

-----------------------------------------------------------------------------
(* Connection, Node, Genome. *)

Connection(input_node, output_node, innovation, weight) ==
    [input_node |-> input_node, output_node |-> output_node,
     innovation |-> innovation, weight |-> weight, enabled |-> TRUE]

Node(innovation) == [innovation |-> innovation, incoming |-> <<>>]

Genome(input_nodes, hidden_nodes, output_nodes, connections) ==
    [input_nodes |-> input_nodes, hidden_nodes |-> hidden_nodes,
     output_nodes |-> output_nodes, connections |-> connections, fitness |-> 0]

(* get_connection(connections, innovation=...) over a list of references. *)
GetConnectionByInnovation(cheap, connections, innovation) ==
    At(connections, FirstIndex(connections, LAMBDA r : cheap[r].innovation = innovation))

(* get_connection(connections, input_node=..., output_node=...). *)
GetConnectionByNodes(cheap, connections, input_node, output_node) ==
    At(connections,
       FirstIndex(connections, LAMBDA r : cheap[r].input_node = input_node
                                          /\ cheap[r].output_node = output_node))

(* An argument that was left out (Python's None default). *)
NotGiven == -1

(* A faulty variant of get_connection: a node pair that is given is looked up
   even when an innovation number is given too. *)
GetConnectionPreferringNodes(cheap, connections, input_node, output_node, innovation) ==
    IF input_node # NotGiven /\ output_node # NotGiven
    THEN Ok(GetConnectionByNodes(cheap, connections, input_node, output_node))
    ELSE IF innovation # NotGiven
    THEN Ok(GetConnectionByInnovation(cheap, connections, innovation))
    ELSE Raise("ValueError")

(* get_connection with any of its keyword arguments. *)
get_connection(cheap, connections, input_node, output_node, innovation) ==
    IF innovation # NotGiven
    THEN Ok(GetConnectionByInnovation(cheap, connections, innovation))
    ELSE IF input_node # NotGiven /\ output_node # NotGiven
    THEN Ok(GetConnectionByNodes(cheap, connections, input_node, output_node))
    ELSE Raise("ValueError")

(* What the mutation operators read and write, as one value, so that a caller
   (Generation.mutate) can apply several of them in a row. *)
Store ==
    [INNOVATION |-> INNOVATION, nodeObj |-> nodeObj, listObj |-> listObj,
     connObj |-> connObj, genomeObj |-> genomeObj, minted |-> minted,
     addLog |-> addLog, splitLog |-> splitLog]

(* The node references of a genome in the order get_node scans them. *)
GenomeNodes(st, g) ==
    st.listObj[st.genomeObj[g].input_nodes] \o st.listObj[st.genomeObj[g].hidden_nodes]
        \o st.listObj[st.genomeObj[g].output_nodes]

(* A faulty variant of get_node: the hidden nodes are not scanned. *)
GetNodeSkippingHidden(st, g, innovation) ==
    At(st.listObj[st.genomeObj[g].input_nodes] \o st.listObj[st.genomeObj[g].output_nodes],
       FirstIndex(st.listObj[st.genomeObj[g].input_nodes]
                      \o st.listObj[st.genomeObj[g].output_nodes],
                  LAMBDA r : st.nodeObj[r].innovation = innovation))

get_node(st, g, innovation) ==
    At(GenomeNodes(st, g),
       FirstIndex(GenomeNodes(st, g), LAMBDA r : st.nodeObj[r].innovation = innovation))

NodeIds(st, g) == {st.nodeObj[r].innovation : r \in Range(GenomeNodes(st, g))}

ConnInnovations(st, g) ==
    {st.connObj[r].innovation : r \in Range(st.genomeObj[g].connections)}

-----------------------------------------------------------------------------
(* Generation: the two ledgers. *)

InnovationOf(cheap, r) == IF r = None THEN None ELSE cheap[r].innovation

check_for_duplicate_connection(st, input_node, output_node) ==
    InnovationOf(st.connObj,
                 GetConnectionByNodes(st.connObj, generation.mutated_connections,
                                      input_node, output_node))

(* The node id of the ledger entry number i; None for i = 0. *)
LedgerNode(st, i) ==
    IF i = 0 THEN None ELSE st.nodeObj[generation.mutated_nodes[i][1]].innovation

(* Connection.__eq__ compares innovation numbers. *)
check_for_duplicate_node(st, split_connection) ==
    LedgerNode(st, FirstIndex(generation.mutated_nodes,
                       LAMBDA p : st.connObj[p[2]].innovation
                                  = st.connObj[split_connection].innovation))

(* Generation.__init__ without the speciation. *)
Generation(epoch, genomes, species) ==
    [epoch |-> epoch, genomes |-> genomes, mutated_connections |-> <<>>,
     mutated_nodes |-> <<>>, species |-> species]

(* A call as the caller saw it: the method, the genome it was called on, its
   arguments, the exception it raised ("" for none) and what it returned. *)
Call(op, g, args, err, ret) ==
    [op |-> op, genome |-> g, args |-> args, err |-> err, ret |-> ret]

(* at: where the caller is; op: the call in progress; s, g: the position of its
   loop; m: the structural mutations its mutate() loop made; next: the
   next_generation list of advance_epoch. *)
Pc(at, op, s, g, next) ==
    [at |-> at, op |-> op, s |-> s, g |-> g, m |-> 0, next |-> next]

IdlePc == Pc("idle", "", 0, 0, <<>>)

-----------------------------------------------------------------------------
(* get_gene_differences, get_compatibility_distance. *)

Innovations(cheap, connections) == {cheap[r].innovation : r \in Range(connections)}

(* Lines 524-533 for a gene of one genome only: excess when beyond the other
   genome's highest innovation number, whose max() raises on an empty set. *)
ExcessOrDisjoint(innovation, others) ==
    IF others = {} THEN Raise("ValueError")
    ELSE IF innovation > SetMax(others) THEN Ok(<<1, 0, 0>>) ELSE Ok(<<0, 1, 0>>)

(* A faulty variant of ClassifyGene: a gene of the second genome only is never
   compared with the first genome's highest innovation number. *)
ClassifyGeneOneSided(cheap, first, second, innovation) ==
    IF innovation \in Innovations(cheap, first) \cap Innovations(cheap, second)
    THEN Ok(<<0, 0, Abs(cheap[GetConnectionByInnovation(cheap, first, innovation)].weight
                    - cheap[GetConnectionByInnovation(cheap, second, innovation)].weight)>>)
    ELSE IF innovation \in Innovations(cheap, first)
         THEN ExcessOrDisjoint(innovation, Innovations(cheap, second))
         ELSE Ok(<<0, 1, 0>>)

(* What one innovation number of the union adds to (excess, disjoint, weight). *)
ClassifyGene(cheap, first, second, innovation) ==
    IF innovation \in Innovations(cheap, first) \cap Innovations(cheap, second)
    THEN Ok(<<0, 0, Abs(cheap[GetConnectionByInnovation(cheap, first, innovation)].weight
                    - cheap[GetConnectionByInnovation(cheap, second, innovation)].weight)>>)
    ELSE IF innovation \in Innovations(cheap, first)
         THEN ExcessOrDisjoint(innovation, Innovations(cheap, second))
         ELSE ExcessOrDisjoint(innovation, Innovations(cheap, first))

AddGenes(one, rest) ==
    IF one.err # "" THEN one
    ELSE IF rest.err # "" THEN rest
    ELSE Ok(<<one.val[1] + rest.val[1], one.val[2] + rest.val[2], one.val[3] + rest.val[3]>>)

RECURSIVE SumGenes(_, _, _, _)
SumGenes(cheap, first, second, todo) ==
    IF todo = {} THEN Ok(<<0, 0, 0>>)
    ELSE AddGenes(ClassifyGene(cheap, first, second, Pick(todo)),
                  SumGenes(cheap, first, second, todo \ {Pick(todo)}))

(* <<excess, disjoint, total weight difference in tenths>>. *)
get_gene_differences(cheap, first, second) ==
    SumGenes(cheap, first, second,
             Innovations(cheap, first) \cup Innovations(cheap, second))

(* Lines 454-457 under a value of the module flag
   NORMALISE_COMPAT_DISTANCE_FOR_GENE_SIZE. *)
NGenesUnder(normalise, longest) ==
    IF ~normalise /\ longest < NormaliseFrom THEN 1 ELSE longest

(* Lines 454-457. *)
NGenes(longest) == NGenesUnder(NORMALISE_COMPAT_DISTANCE_FOR_GENE_SIZE, longest)

(* A faulty variant of Distance: the weight term is divided by n_genes like the
   other two. *)
DistanceAllDivided(d, n_genes) ==
    IF d.err # "" THEN d
    ELSE IF n_genes = 0 THEN Raise("ZeroDivisionError")
    ELSE Ok(<<EXCESS_GENES_COEFFICIENT_100 * d.val[1]
                + DISJOINT_GENES_COEFFICIENT_100 * d.val[2]
                + WEIGHT_DIFFERENCE_COEFFICIENT_10 * d.val[3],
              n_genes>>)

(* Lines 462-466: the distance times 100, as the fraction <<numerator, n_genes>>;
   the division of line 462 raises for n_genes = 0. *)
Distance(d, n_genes) ==
    IF d.err # "" THEN d
    ELSE IF n_genes = 0 THEN Raise("ZeroDivisionError")
    ELSE Ok(<<EXCESS_GENES_COEFFICIENT_100 * d.val[1]
                + DISJOINT_GENES_COEFFICIENT_100 * d.val[2]
                + WEIGHT_DIFFERENCE_COEFFICIENT_10 * d.val[3] * n_genes,
              n_genes>>)

get_compatibility_distance(cheap, first, second) ==
    Distance(get_gene_differences(cheap, first, second),
             NGenes(Max2(Len(first), Len(second))))

(* get_compatibility_distance after the caller set the module flag, as the
   tests do. *)
CompatibilityDistanceUnder(normalise, cheap, first, second) ==
    Distance(get_gene_differences(cheap, first, second),
             NGenesUnder(normalise, Max2(Len(first), Len(second))))

(* distance <= COMPATIBILITY_THRESHOLD, for a distance that was computed. *)
WithinThreshold(d) == d.val[1] <= COMPATIBILITY_THRESHOLD_100 * d.val[2]

-----------------------------------------------------------------------------
(* Species and Generation._speciate. *)

Species(species_id, representative) ==
    [id |-> species_id, population |-> <<representative>>,
     representative |-> representative, champion |-> None,
     fitness |-> <<0, 1>>, max_population |-> 0]

(* list.remove(x): the list without the first occurrence of x. *)
RemoveAt(s, i) == SubSeq(s, 1, i - 1) \o SubSeq(s, i + 1, Len(s))

Remove(s, x) == RemoveAt(s, FirstIndex(s, LAMBDA y : y = x))

(* Line 347, "if prev_species.champion": a Genome is true when it has
   connections (Genome.__len__). *)
Truthy(gheap, g) == g # None /\ gheap[g].connections # <<>>

(* The RANDOM.choice draws _speciate can make: one population index per
   species of the previous generation. *)
RepresentativeDraws(prev) ==
    {f \in [1..Len(prev) -> 1..MaxGenomes] :
        \A k \in 1..Len(prev) : f[k] <= Max2(1, Len(prev[k].population))}

(* Lines 347-350. *)
Representative(gheap, prev_species, index) ==
    IF Truthy(gheap, prev_species.champion) THEN prev_species.champion
    ELSE prev_species.population[index]

(* Lines 345-355: one species per species of the previous generation. *)
RECURSIVE CarryOver(_, _, _, _, _, _)
CarryOne(gheap, prev, draw, k, genomes, species, representative) ==
    IF representative \notin Range(genomes) THEN Raise("ValueError")
    ELSE CarryOver(gheap, prev, draw, k + 1, Remove(genomes, representative),
                   Append(species, Species(prev[k].id, representative)))

CarryOver(gheap, prev, draw, k, genomes, species) ==
    IF k > Len(prev) THEN Ok(<<genomes, species>>)
    ELSE IF ~Truthy(gheap, prev[k].champion) /\ prev[k].population = <<>>
    THEN Raise("IndexError")
    ELSE CarryOne(gheap, prev, draw, k, genomes, species,
                  Representative(gheap, prev[k], draw[k]))

(* The distances of lines 363-364 from a genome to each representative. *)
Distances(gheap, cheap, species, genome) ==
    [k \in 1..Len(species) |->
        get_compatibility_distance(cheap, gheap[genome].connections,
                                   gheap[species[k].representative].connections)]

(* The index of the first species within the threshold, 0 when there is none,
   -1 when a distance raised before a match. *)
Matched(dists, i) == IF i = 0 THEN 0 ELSE IF dists[i].err # "" THEN -1 ELSE i

(* A faulty variant of FirstMatch: the last species within the threshold. *)
LastMatch(dists) ==
    Matched(dists, SetMax({0} \cup {i \in 1..Len(dists) :
                                      dists[i].err # "" \/ WithinThreshold(dists[i])}))

FirstMatch(dists) ==
    Matched(dists, FirstIndex(dists, LAMBDA d : d.err # "" \/ WithinThreshold(d)))

(* A faulty variant of Place: a genome that matches a species is not added
   to its population. *)
PlaceOnlyFounders(species, genome, m) ==
    IF m = 0 THEN Append(species, Species(species[Len(species)].id + 1, genome))
    ELSE species

(* Lines 365-371. *)
Place(species, genome, m) ==
    IF m = 0 THEN Append(species, Species(species[Len(species)].id + 1, genome))
    ELSE [species EXCEPT ![m].population = Append(@, genome)]

(* Lines 361-371: every other genome joins a species or starts one. *)
RECURSIVE Assign(_, _, _, _)
AssignOne(gheap, cheap, genomes, species, m) ==
    IF m = -1 THEN Raise("ValueError")
    ELSE Assign(gheap, cheap, Tail(genomes), Place(species, Head(genomes), m))

Assign(gheap, cheap, genomes, species) ==
    IF genomes = <<>> THEN Ok(species)
    ELSE AssignOne(gheap, cheap, genomes, species,
                   FirstMatch(Distances(gheap, cheap, species, Head(genomes))))

AfterCarryOver(gheap, cheap, c) ==
    IF c.err # "" THEN c ELSE Assign(gheap, cheap, c.val[1], c.val[2])

(* Generation._speciate: the species list, or the error it raises. *)
Speciate(gheap, cheap, genomes, prev, draw) ==
    IF prev # <<>>
    THEN AfterCarryOver(gheap, cheap, CarryOver(gheap, prev, draw, 1, genomes, <<>>))
    ELSE IF genomes # <<>>
    THEN Assign(gheap, cheap, Tail(genomes), <<Species(0, Head(genomes))>>)
    ELSE Ok(<<>>)

-----------------------------------------------------------------------------
(* setup(input_size, output_size). *)

(* The nodes of the base genome; an output node has one incoming connection
   per input node. *)
SetupNodes(input_size, output_size) ==
    [j \in 1..(input_size + output_size) |->
        IF j <= input_size THEN Node(INNOVATION + j - 1)
        ELSE [innovation |-> INNOVATION + j - 1,
              incoming |-> [a \in 1..input_size |->
                  INNOVATION + input_size + output_size
                      + (a - 1) * output_size + (j - input_size - 1)]]]

SetupConnections(input_size, output_size) ==
    [c \in 1..(input_size * output_size) |->
        Connection(INNOVATION + ((c - 1) \div output_size),
                   INNOVATION + input_size + ((c - 1) % output_size),
                   INNOVATION + input_size + output_size + c - 1,
                   DefaultWeight)]

(* A faulty variant of SetupGenome: the population holds the base genome's
   lists and connections instead of deep copies. *)
SetupGenomeShared(k, input_size, output_size) ==
    Genome(Len(listObj) + 1, Len(listObj) + 2, Len(listObj) + 3,
           [c \in 1..(input_size * output_size) |-> Len(connObj) + c])

(* The deep copy number k (from 0) of the base genome, placed after what the
   heaps hold. *)
SetupGenome(k, input_size, output_size) ==
    Genome(Len(listObj) + 3 * k + 1, Len(listObj) + 3 * k + 2, Len(listObj) + 3 * k + 3,
           [c \in 1..(input_size * output_size) |->
               Len(connObj) + k * input_size * output_size + c])

SetupLists(k, input_size, output_size) ==
    << [j \in 1..input_size |-> Len(nodeObj) + k * (input_size + output_size) + j],
       <<>>,
       [j \in 1..output_size |->
           Len(nodeObj) + k * (input_size + output_size) + input_size + j] >>

RECURSIVE SetupAllLists(_, _, _)
SetupAllLists(k, input_size, output_size) ==
    IF k = MAX_POPULATION_SIZE THEN <<>>
    ELSE SetupLists(k, input_size, output_size)
            \o SetupAllLists(k + 1, input_size, output_size)

Minted(from, count) == [j \in 1..count |-> from + j - 1]

(* Line 591, Generation(population): the heaps are written, the population
   speciated. *)
SetupGeneration(input_size, output_size, population, gheap, cheap) ==
    /\ connObj' = cheap
    /\ genomeObj' = gheap
    /\ generation' = Generation(0, population,
                                Speciate(gheap, cheap, population, <<>>, <<>>).val)
    /\ last' = Call("setup", None, <<input_size, output_size>>, "", <<>>)

Setup(input_size, output_size) ==
    /\ pc.at = "start"
    /\ INNOVATION' = INNOVATION + input_size + output_size + input_size * output_size
    /\ minted' = minted \o Minted(INNOVATION,
                              input_size + output_size + input_size * output_size)
    /\ nodeObj' = nodeObj \o Repeat(SetupNodes(input_size, output_size),
                                    MAX_POPULATION_SIZE)
    /\ listObj' = listObj \o SetupAllLists(0, input_size, output_size)
    /\ SetupGeneration(input_size, output_size,
           [k \in 1..MAX_POPULATION_SIZE |-> Len(genomeObj) + k],
           genomeObj \o [k \in 1..MAX_POPULATION_SIZE |->
                            SetupGenome(k - 1, input_size, output_size)],
           connObj \o Repeat(SetupConnections(input_size, output_size),
                             MAX_POPULATION_SIZE))
    /\ pc' = IdlePc
    /\ UNCHANGED <<addLog, splitLog, used>>

-----------------------------------------------------------------------------
(* Genome.mutate_add_connection and Genome.mutate_add_node, as functions from
   the store to [st, err, ret]. *)

Outcome(st, err, ret) == [st |-> st, err |-> err, ret |-> ret]

(* Lines 127-140: the connection is made, registered on its output node and
   appended. *)
Added(st, g, input_node, output_node, weight, node, dupl_innov) ==
    Outcome(
        [st EXCEPT
            !.nodeObj[node].incoming = Append(@, st.INNOVATION),
            !.connObj = Append(@, Connection(input_node, output_node,
                  IF dupl_innov # 0 THEN dupl_innov ELSE st.INNOVATION, weight)),
            !.genomeObj[g].connections = Append(@, Len(st.connObj) + 1),
            !.INNOVATION = IF dupl_innov # 0 THEN @ ELSE @ + 1,
            !.minted = IF dupl_innov # 0 THEN @ ELSE Append(@, st.INNOVATION),
            !.addLog = @ \cup {<<generation.epoch, g, input_node, output_node,
                  IF dupl_innov # 0 THEN dupl_innov ELSE st.INNOVATION>>}],
        "", <<Len(st.connObj) + 1>>)

(* A faulty variant of AddConnection: the output node registers the connection
   before the genome is searched for the pair. *)
AddConnectionRegisterFirst(st, g, input_node, output_node, weight, connex, node, dupl_innov) ==
    IF node = None THEN Outcome(st, "AttributeError", <<>>)
    ELSE IF connex # None
    THEN Outcome([st EXCEPT !.nodeObj[node].incoming = Append(@, st.INNOVATION)],
                 "ValueError", <<>>)
    ELSE Added(st, g, input_node, output_node, weight, node, dupl_innov)

(* Lines 124-140 with the three lookups made: connex of line 123, node of line
   128, dupl_innov of line 132. *)
AddConnection(st, g, input_node, output_node, weight, connex, node, dupl_innov) ==
    IF connex # None THEN Outcome(st, "ValueError", <<>>)
    ELSE IF node = None THEN Outcome(st, "AttributeError", <<>>)
    ELSE Added(st, g, input_node, output_node, weight, node, dupl_innov)

mutate_add_connection(st, g, input_node, output_node, weight) ==
    AddConnection(st, g, input_node, output_node, weight,
        GetConnectionByNodes(st.connObj, st.genomeObj[g].connections,
                             input_node, output_node),
        get_node(st, g, output_node),
        check_for_duplicate_connection(st, input_node, output_node))

(* A faulty variant of FreshNode: the two new connections get each other's
   weight. *)
FreshNodeSwappedWeights(st, g, old_connection, node_id) ==
    [st EXCEPT
        !.INNOVATION = @ + 3,
        !.minted = @ \o <<node_id, node_id + 1, node_id + 2>>,
        !.nodeObj = Append(@, [innovation |-> node_id, incoming |-> <<node_id + 1>>]),
        !.listObj[st.genomeObj[g].hidden_nodes] = Append(@, Len(st.nodeObj) + 1),
        !.connObj = [@ EXCEPT ![old_connection].enabled = FALSE]
            \o << Connection(st.connObj[old_connection].input_node, node_id,
                             node_id + 1, st.connObj[old_connection].weight),
                  Connection(node_id, st.connObj[old_connection].output_node,
                             node_id + 2, SplitWeight) >>]

(* A faulty variant of FreshNode: the counter is not advanced past the two
   connections (line 176 left out). *)
FreshNodeShortCount(st, g, old_connection, node_id) ==
    [st EXCEPT
        !.INNOVATION = @ + 1,
        !.minted = @ \o <<node_id>>,
        !.nodeObj = Append(@, [innovation |-> node_id, incoming |-> <<node_id + 1>>]),
        !.listObj[st.genomeObj[g].hidden_nodes] = Append(@, Len(st.nodeObj) + 1),
        !.connObj = [@ EXCEPT ![old_connection].enabled = FALSE]
            \o << Connection(st.connObj[old_connection].input_node, node_id,
                             node_id + 1, SplitWeight),
                  Connection(node_id, st.connObj[old_connection].output_node,
                             node_id + 2, st.connObj[old_connection].weight) >>]

(* Lines 161-179 for a split that the ledger does not know: the store once the
   node and the two connections exist and the node has its incoming entry. *)
FreshNode(st, g, old_connection, node_id) ==
    [st EXCEPT
        !.INNOVATION = @ + 3,
        !.minted = @ \o <<node_id, node_id + 1, node_id + 2>>,
        !.nodeObj = Append(@, [innovation |-> node_id, incoming |-> <<node_id + 1>>]),
        !.listObj[st.genomeObj[g].hidden_nodes] = Append(@, Len(st.nodeObj) + 1),
        !.connObj = [@ EXCEPT ![old_connection].enabled = FALSE]
            \o << Connection(st.connObj[old_connection].input_node, node_id,
                             node_id + 1, SplitWeight),
                  Connection(node_id, st.connObj[old_connection].output_node,
                             node_id + 2, st.connObj[old_connection].weight) >>]

(* A faulty variant of FreshLinks: line 183 appends connection_to_node again. *)
FreshLinksAppendTwice(st, s1, g, old_connection, node_id, out) ==
    IF out = None THEN Outcome(s1, "AttributeError", <<>>)
    ELSE Outcome(
            [s1 EXCEPT
                !.nodeObj[out].incoming = Append(@, node_id + 2),
                !.genomeObj[g].connections =
                    @ \o <<Len(st.connObj) + 1, Len(st.connObj) + 1>>,
                !.splitLog = @ \cup {<<generation.epoch, g,
                                       st.connObj[old_connection].innovation, node_id>>}],
            "", <<Len(st.nodeObj) + 1, Len(st.connObj) + 1, Len(st.connObj) + 2>>)

(* Lines 180-186: out is get_node(old_output). *)
FreshLinks(st, s1, g, old_connection, node_id, out) ==
    IF out = None THEN Outcome(s1, "AttributeError", <<>>)
    ELSE Outcome(
            [s1 EXCEPT
                !.nodeObj[out].incoming = Append(@, node_id + 2),
                !.genomeObj[g].connections =
                    @ \o <<Len(st.connObj) + 1, Len(st.connObj) + 2>>,
                !.splitLog = @ \cup {<<generation.epoch, g,
                                       st.connObj[old_connection].innovation, node_id>>}],
            "", <<Len(st.nodeObj) + 1, Len(st.connObj) + 1, Len(st.connObj) + 2>>)

SplitFresh(st, g, old_connection) ==
    FreshLinks(st, FreshNode(st, g, old_connection, st.INNOVATION), g, old_connection,
               st.INNOVATION, get_node(st, g, st.connObj[old_connection].output_node))

(* Lines 159-169 for a split that check_for_duplicate_node found. *)
LedgeredNode(st, g, old_connection, dupl_id) ==
    [st EXCEPT
        !.nodeObj = Append(@, Node(dupl_id)),
        !.listObj[st.genomeObj[g].hidden_nodes] = Append(@, Len(st.nodeObj) + 1),
        !.connObj[old_connection].enabled = FALSE]

(* Lines 179-186 with the two Connection objects of lines 171-172 taken from
   the ledger: to and from may be None. *)
LedgeredLinks(st, s1, g, old_connection, dupl_id, to, from, out) ==
    IF to = None THEN Outcome(s1, "TypeError", <<>>)
    ELSE IF out = None
    THEN Outcome([s1 EXCEPT !.nodeObj[Len(st.nodeObj) + 1].incoming =
                                Append(@, st.connObj[to].innovation)],
                 "AttributeError", <<>>)
    ELSE IF from = None
    THEN Outcome([s1 EXCEPT !.nodeObj[Len(st.nodeObj) + 1].incoming =
                                Append(@, st.connObj[to].innovation)],
                 "TypeError", <<>>)
    ELSE Outcome(
            [s1 EXCEPT
                !.nodeObj[Len(st.nodeObj) + 1].incoming =
                    Append(@, st.connObj[to].innovation),
                !.nodeObj[out].incoming = Append(@, st.connObj[from].innovation),
                !.genomeObj[g].connections = @ \o <<to, from>>,
                !.splitLog = @ \cup {<<generation.epoch, g,
                                       st.connObj[old_connection].innovation, dupl_id>>}],
            "", <<Len(st.nodeObj) + 1, to, from>>)

SplitLedgered(st, g, old_connection, dupl_id) ==
    LedgeredLinks(st, LedgeredNode(st, g, old_connection, dupl_id), g, old_connection,
        dupl_id,
        GetConnectionByNodes(st.connObj, generation.mutated_connections,
                             st.connObj[old_connection].input_node, dupl_id),
        GetConnectionByNodes(st.connObj, generation.mutated_connections,
                             dupl_id, st.connObj[old_connection].output_node),
        get_node(LedgeredNode(st, g, old_connection, dupl_id), g,
                 st.connObj[old_connection].output_node))

(* Lines 157-186. *)
Split(st, g, old_connection, dupl_id) ==
    IF dupl_id # 0 THEN SplitLedgered(st, g, old_connection, dupl_id)
    ELSE SplitFresh(st, g, old_connection)

(* Lines 152-154: old_connection.input_node raises on None. *)
SplitFound(st, g, old_connection) ==
    IF old_connection = None THEN Outcome(st, "AttributeError", <<>>)
    ELSE Split(st, g, old_connection, check_for_duplicate_node(st, old_connection))

mutate_add_node(st, g, connection_innovation) ==
    SplitFound(st, g, GetConnectionByInnovation(st.connObj, st.genomeObj[g].connections,
                                                connection_innovation))

-----------------------------------------------------------------------------
(* Genome.mutate_weights. *)

(* The draws of one connection: a perturbation within STEP_SIZE, or a fresh
   random weight in [0, 1). *)
WeightDeltas == {-1}
RandomWeights == {0}

WeightDraws(w) == {w + d : d \in WeightDeltas} \cup RandomWeights

Perturbed(old, new) == \E d \in WeightDeltas : new = old + d

(* The weights a call can leave on the genome's connections, in list order;
   at most MaxRandomWeights of them are fresh random weights. *)
mutate_weights_draws(st, g) ==
    {ws \in SeqProduct([k \in 1..Len(st.genomeObj[g].connections) |->
                           WeightDraws(st.connObj[st.genomeObj[g].connections[k]].weight)]) :
        Cardinality({k \in 1..Len(ws) :
            ~Perturbed(st.connObj[st.genomeObj[g].connections[k]].weight, ws[k])})
                <= MaxRandomWeights}

RECURSIVE SetWeights(_, _, _, _)
SetWeights(cheap, connections, weights, k) ==
    IF k > Len(connections) THEN cheap
    ELSE SetWeights([cheap EXCEPT ![connections[k]].weight = weights[k]],
                    connections, weights, k + 1)

mutate_weights(st, g, weights) ==
    [st EXCEPT !.connObj = SetWeights(@, st.genomeObj[g].connections, weights, 1)]

-----------------------------------------------------------------------------
(* get_fittest and Generation.breed. *)

(* Lines 552-556: the genomes fittest can be after the candidate. *)
Fitter(gheap, candidate, f) ==
    IF gheap[candidate].fitness > gheap[f].fitness THEN {candidate}
    ELSE IF gheap[candidate].fitness = gheap[f].fitness THEN {candidate, f}
    ELSE {f}

(* The genomes get_fittest can return, ties being broken at random. *)
RECURSIVE get_fittest(_, _, _)
get_fittest(gheap, genomes, fittest) ==
    IF genomes = <<>> THEN fittest
    ELSE UNION {get_fittest(gheap, Tail(genomes), Fitter(gheap, Head(genomes), f)) :
                   f \in fittest}

Fittest(gheap, genomes) ==
    IF genomes = <<>> THEN {None} ELSE get_fittest(gheap, Tail(genomes), {Head(genomes)})

(* Lines 270-274: a matching gene is copied from either parent, and drawn
   enabled or not when either parent has it disabled. *)
MatchingGenes(fc, bc) ==
    UNION { {[random_gene EXCEPT !.enabled = e] :
                e \in IF ~fc.enabled \/ ~bc.enabled THEN BOOLEAN
                      ELSE {random_gene.enabled}} : random_gene \in {fc, bc} }

(* Lines 277-280. *)
OwnGenes(fc) ==
    {[fc EXCEPT !.enabled = e] : e \in IF ~fc.enabled THEN BOOLEAN ELSE {fc.enabled}}

(* Lines 266-280: the genes the offspring can inherit for one gene of the
   fitter parent. *)
InheritedFrom(st, fit_connection, bad_connection) ==
    IF bad_connection # None
    THEN MatchingGenes(st.connObj[fit_connection], st.connObj[bad_connection])
    ELSE OwnGenes(st.connObj[fit_connection])

InheritedGenes(st, fit_connection, bad_parent) ==
    InheritedFrom(st, fit_connection,
        GetConnectionByInnovation(st.connObj, st.genomeObj[bad_parent].connections,
                                  st.connObj[fit_connection].innovation))

(* The gene lists an offspring of fit_parent and bad_parent can get. *)
breed_draws(st, fit_parent, bad_parent) ==
    SeqProduct([k \in 1..Len(st.genomeObj[fit_parent].connections) |->
                   InheritedGenes(st, st.genomeObj[fit_parent].connections[k], bad_parent)])

(* A faulty variant of breed: the hidden nodes come from the first parent, like
   the input and output nodes. *)
BreedFirstParentHidden(st, first_parent, second_parent, fit_parent, genes) ==
    [st EXCEPT
        !.connObj = @ \o genes,
        !.genomeObj = Append(@,
            Genome(st.genomeObj[first_parent].input_nodes,
                   st.genomeObj[first_parent].hidden_nodes,
                   st.genomeObj[first_parent].output_nodes,
                   [k \in 1..Len(genes) |-> Len(st.connObj) + k]))]

(* Generation.breed with its draws made: the store with the offspring added
   as the last genome.  The offspring's node lists are its parents' lists. *)
breed(st, first_parent, second_parent, fit_parent, genes) ==
    [st EXCEPT
        !.connObj = @ \o genes,
        !.genomeObj = Append(@,
            Genome(st.genomeObj[first_parent].input_nodes,
                   st.genomeObj[fit_parent].hidden_nodes,
                   st.genomeObj[first_parent].output_nodes,
                   [k \in 1..Len(genes) |-> Len(st.connObj) + k]))]

(* Line 256. *)
BadParent(first_parent, second_parent, fit_parent) ==
    IF fit_parent = second_parent THEN first_parent ELSE second_parent

-----------------------------------------------------------------------------
(* Species.choose_champion. *)

(* A faulty variant of choose_champion_draws: a species of exactly
   CHAMPION_THRESHOLD members still gets a random champion. *)
ChampionDrawsLateThreshold(gheap, species) ==
    IF Len(species.population) <= CHAMPION_THRESHOLD
    THEN Range(species.population)
    ELSE Fittest(gheap, species.population)

choose_champion_draws(gheap, species) ==
    IF Len(species.population) < CHAMPION_THRESHOLD
    THEN Range(species.population)
    ELSE Fittest(gheap, species.population)

-----------------------------------------------------------------------------
(* Species.prune. *)

(* population[i] comes before population[j] in the list sorted by adjusted
   fitness with reverse=True: the sort is stable, and every member has the
   same denominator len(population). *)
SortsBefore(gheap, population, i, j) ==
    \/ gheap[population[i]].fitness > gheap[population[j]].fitness
    \/ gheap[population[i]].fitness = gheap[population[j]].fitness /\ i < j

SortRank(gheap, population, i) ==
    1 + Cardinality({j \in 1..Len(population) : SortsBefore(gheap, population, j, i)})

(* Line 437, when the key function can read the list. *)
SortedByFitness(gheap, population) ==
    [r \in 1..Len(population) |->
        population[CHOOSE i \in 1..Len(population) :
                       SortRank(gheap, population, i) = r]]

(* Line 438. *)
PruneNum(population) == (Len(population) * PRUNE_LOW_PERFORMERS_FRACTION_100) \div 100

(* Lines 439-440. *)
Pruned(sorted) == SubSeq(sorted, 1, Len(sorted) - PruneNum(sorted))

(* The ways prune can end.  The key function of line 437 reads self.population
   (get_adjusted_fitness, line 413) while list.sort() runs on it, which Python
   leaves undefined: CPython shows the list empty during the sort, so that the
   membership test fails and ValueError is raised with the population as it
   was; an implementation that shows the list sorts and prunes. *)
prune_outcomes(gheap, species) ==
    IF species.population = <<>> THEN {Ok(species.population)}
    ELSE {[err |-> "ValueError", val |-> species.population],
          Ok(Pruned(SortedByFitness(gheap, species.population)))}

-----------------------------------------------------------------------------
(* The calls a user of the module makes between epochs. *)

(* The store written back to the variables. *)
Commit(st) ==
    /\ INNOVATION' = st.INNOVATION
    /\ nodeObj' = st.nodeObj
    /\ listObj' = st.listObj
    /\ connObj' = st.connObj
    /\ genomeObj' = st.genomeObj
    /\ minted' = st.minted
    /\ addLog' = st.addLog
    /\ splitLog' = st.splitLog

(* A call returns or raises: r is the [st, err, ret] it ended with. *)
Returns(op, g, args, r) ==
    /\ Commit(r.st)
    /\ last' = Call(op, g, args, r.err, r.ret)

AllGenomes == 1..Len(genomeObj)

(* An identifier that no node and no connection has. *)
UnknownId == 0

(* The bounds on a run: at most MaxCalls calls before the first advance_epoch,
   advance_epoch only on a generation that was at most evaluated (fitness
   written, champions chosen) since it was built, and one more call, of
   Generation.mutate, on a generation that advance_epoch returned. *)
Idle == pc.at = "idle" /\ used.calls < MaxCalls /\ used.epochs = 0

Settled ==
    /\ pc.at = "idle"
    /\ IF generation.epoch = 0 THEN used.calls < MaxCalls /\ used.epochs = 0
       ELSE used.calls <= MaxCalls

Evaluated == pc.at = "idle" /\ used.epochs < MaxEpoch /\ used.changes = 0

Mutations == Cardinality(addLog) + Cardinality(splitLog)

StoreMutations(st) == Cardinality(st.addLog) + Cardinality(st.splitLog)

OneCall == used' = [used EXCEPT !.calls = @ + 1, !.changes = @ + 1]

OneReading == used' = [used EXCEPT !.calls = @ + 1]

MutateAddConnection(g, input_node, output_node, weight) ==
    /\ Idle
    /\ Mutations < MaxMutations
    /\ Returns("mutate_add_connection", g, <<input_node, output_node>>,
               mutate_add_connection(Store, g, input_node, output_node, weight))
    /\ OneCall
    /\ UNCHANGED <<generation, pc>>

MutateAddNode(g, connection_innovation) ==
    /\ Idle
    /\ Mutations < MaxMutations
    /\ Returns("mutate_add_node", g, <<connection_innovation>>,
               mutate_add_node(Store, g, connection_innovation))
    /\ OneCall
    /\ UNCHANGED <<generation, pc>>

MutateWeights(g) ==
    /\ Idle
    /\ used.weights < MaxWeightCalls
    /\ \E weights \in mutate_weights_draws(Store, g) :
          Commit(mutate_weights(Store, g, weights))
    /\ used' = [used EXCEPT !.calls = @ + 1, !.changes = @ + 1, !.weights = @ + 1]
    /\ last' = Call("mutate_weights", g, <<>>, "", <<>>)
    /\ UNCHANGED <<generation, pc>>

(* The evaluator writes a fitness onto a genome. *)
SetFitness(g, fitness) ==
    /\ Idle
    /\ genomeObj[g].fitness # fitness
    /\ genomeObj' = [genomeObj EXCEPT ![g].fitness = fitness]
    /\ last' = Call("fitness", g, <<fitness>>, "", <<>>)
    /\ OneReading
    /\ UNCHANGED <<INNOVATION, nodeObj, listObj, connObj, generation, pc, minted,
                   addLog, splitLog>>

Breed(first_parent, second_parent) ==
    /\ Idle
    /\ Len(genomeObj) < MaxGenomes
    /\ \E fit_parent \in Fittest(genomeObj, <<first_parent, second_parent>>) :
          \E genes \in breed_draws(Store, fit_parent,
                                   BadParent(first_parent, second_parent, fit_parent)) :
             /\ Commit(breed(Store, first_parent, second_parent, fit_parent, genes))
             /\ last' = Call("breed", Len(genomeObj) + 1,
                             <<first_parent, second_parent, fit_parent>>, "", <<>>)
    /\ OneCall
    /\ UNCHANGED <<generation, pc>>

ChooseChampion(s) ==
    /\ Idle
    /\ \E champion \in choose_champion_draws(genomeObj, generation.species[s]) :
          /\ generation' = [generation EXCEPT !.species[s].champion = champion]
          /\ last' = Call("choose_champion", champion, <<s>>, "", <<champion>>)
    /\ OneReading
    /\ UNCHANGED <<INNOVATION, nodeObj, listObj, connObj, genomeObj, pc, minted,
                   addLog, splitLog>>

Prune(s) ==
    /\ Idle
    /\ \E r \in prune_outcomes(genomeObj, generation.species[s]) :
          /\ generation' = [generation EXCEPT !.species[s].population = r.val]
          /\ last' = Call("prune", None, <<s>>, r.err, <<>>)
    /\ OneReading
    /\ UNCHANGED <<INNOVATION, nodeObj, listObj, connObj, genomeObj, pc, minted,
                   addLog, splitLog>>

-----------------------------------------------------------------------------
(* Generation.mutate, one genome of the loop at a step. *)

(* The position after (s, g) in the loop over species and their populations;
   s beyond the species list when the loop is over. *)
RECURSIVE NextPosition(_, _, _)
NextPosition(species, s, g) ==
    IF s > Len(species) THEN <<s, 0>>
    ELSE IF g < Len(species[s].population) THEN <<s, g + 1>>
    ELSE NextPosition(species, s + 1, 0)

LoopGenome == generation.species[pc.s].population[pc.g]

(* Lines 322-323: weights is a weight list, or <<>> when the gate stayed shut. *)
LoopWeights(st, genome, weights) ==
    IF weights = <<>> THEN st ELSE mutate_weights(st, genome, weights)

(* Lines 325-326: connection is the RANDOM.choice of genome.connections, or
   None when the gate stayed shut. *)
LoopAddNode(st, genome, connection) ==
    IF connection = None THEN Outcome(st, "", <<>>)
    ELSE mutate_add_node(st, genome, st.connObj[connection].innovation)

(* Lines 328-331: conn is the pair of drawn node ids, or <<>>. *)
LoopAddConnection(r, genome, conn) ==
    IF r.err # "" \/ conn = <<>> THEN r
    ELSE mutate_add_connection(r.st, genome, conn[1], conn[2], DefaultWeight)

(* Lines 329-330. *)
InOutDraws(st, genome) ==
    {<<st.nodeObj[i].innovation, st.nodeObj[o].innovation>> :
        i \in Range(st.listObj[st.genomeObj[genome].input_nodes]
                    \o st.listObj[st.genomeObj[genome].hidden_nodes]),
        o \in Range(st.listObj[st.genomeObj[genome].hidden_nodes]
                    \o st.listObj[st.genomeObj[genome].output_nodes])}

(* The three gates of lines 322, 325 and 328, open while the bounds allow. *)
WeightGate(genome) ==
    {<<>>} \cup IF used.weights < MaxWeightCalls
                THEN mutate_weights_draws(Store, genome) ELSE {}

NodeGate(genome) ==
    {None} \cup IF Mutations < MaxMutations /\ pc.m < MaxLoopMutations
                THEN Range(genomeObj[genome].connections) ELSE {}

ConnectionGate(r, genome) ==
    {<<>>} \cup IF /\ r.err = ""
                   /\ StoreMutations(r.st) < MaxMutations
                   /\ pc.m + StoreMutations(r.st) - Mutations < MaxLoopMutations
                THEN InOutDraws(r.st, genome) ELSE {}

(* Line 313-314 and the entry into the loop. *)
EnterLoop(op, species) ==
    /\ generation' = [generation EXCEPT !.species = species]
    /\ pc' = Pc("mutate", op, NextPosition(species, 1, 0)[1],
                NextPosition(species, 1, 0)[2], <<>>)

BeginMutate(op) ==
    /\ IF op = "advance_epoch" THEN Evaluated ELSE Settled
    /\ EnterLoop(op, IF generation.species = <<>>
                     THEN Speciate(genomeObj, connObj, generation.genomes, <<>>, <<>>).val
                     ELSE generation.species)
    /\ last' = Call(op, None, <<>>, "", <<>>)
    /\ used' = IF op = "advance_epoch" THEN [used EXCEPT !.epochs = @ + 1]
                ELSE [used EXCEPT !.calls = @ + 1, !.changes = @ + 1]
    /\ UNCHANGED <<INNOVATION, nodeObj, listObj, connObj, genomeObj, minted, addLog,
                   splitLog>>

(* The loop is over: mutate() returns, or advance_epoch goes on. *)
EndMutate ==
    /\ pc.at = "mutate"
    /\ pc.s > Len(generation.species)
    /\ pc' = IF pc.op = "mutate" THEN IdlePc ELSE [pc EXCEPT !.at = "assign"]
    /\ last' = Call(pc.op, None, <<>>, "", <<>>)
    /\ UNCHANGED <<INNOVATION, nodeObj, listObj, connObj, genomeObj, generation, minted,
                   addLog, splitLog, used>>

(* The genome is done: on to the next one, or out of mutate() with the error. *)
GenomeDone(weights, r, pos) ==
    /\ Commit(r.st)
    /\ used' = [used EXCEPT !.weights = IF weights = <<>> THEN @ ELSE @ + 1]
    /\ IF r.err = ""
       THEN /\ pc' = [pc EXCEPT !.s = pos[1], !.g = pos[2],
                                !.m = @ + StoreMutations(r.st) - Mutations]
            /\ last' = last
       ELSE /\ pc' = IdlePc
            /\ last' = Call(pc.op, None, <<>>, r.err, <<>>)

(* Lines 328-331 after lines 322-326 ended with r. *)
MutateConnections(genome, weights, r) ==
    \E conn \in ConnectionGate(r, genome) :
       GenomeDone(weights, LoopAddConnection(r, genome, conn),
                  NextPosition(generation.species, pc.s, pc.g))

(* Line 319-320: the champion is skipped. *)
SkipChampion ==
    /\ pc' = [pc EXCEPT !.s = NextPosition(generation.species, pc.s, pc.g)[1],
                        !.g = NextPosition(generation.species, pc.s, pc.g)[2]]
    /\ UNCHANGED <<INNOVATION, nodeObj, listObj, connObj, genomeObj, minted,
                   addLog, splitLog, used, last>>

MutateGenome ==
    /\ pc.at = "mutate"
    /\ pc.s <= Len(generation.species)
    /\ IF LoopGenome = generation.species[pc.s].champion
       THEN SkipChampion
       ELSE \E weights \in WeightGate(LoopGenome), node \in NodeGate(LoopGenome) :
               MutateConnections(LoopGenome, weights,
                   LoopAddNode(LoopWeights(Store, LoopGenome, weights), LoopGenome, node))
    /\ UNCHANGED generation

-----------------------------------------------------------------------------
(* Generation.advance_epoch after its mutate(): lines 219-236.  The two map()
   calls of lines 219 and 224 build iterators that nothing consumes, so no
   species chooses a champion or prunes there. *)

(* A faulty variant of get_adjusted_fitness: a genome counts as a member when
   a member has its fitness and as many genes. *)
AdjustedFitnessByLooks(gheap, species, genome) ==
    IF \A k \in 1..Len(species.population) :
          \/ gheap[species.population[k]].fitness # gheap[genome].fitness
          \/ Len(gheap[species.population[k]].connections) # Len(gheap[genome].connections)
    THEN Raise("ValueError")
    ELSE Ok(<<gheap[genome].fitness, Len(species.population)>>)

(* Species.get_adjusted_fitness: fitness / len(population) as the fraction
   <<fitness, len(population)>>; Genome has no __eq__, so `in` compares the
   objects. *)
get_adjusted_fitness(gheap, species, genome) ==
    IF genome \notin Range(species.population) THEN Raise("ValueError")
    ELSE Ok(<<gheap[genome].fitness, Len(species.population)>>)

(* Species.get_population_fitness: the sum of fitness / len(population), as the
   fraction <<sum of fitness, len(population)>>. *)
get_population_fitness(gheap, species) ==
    << SumSeq([k \in 1..Len(species.population) |-> gheap[species.population[k]].fitness]),
       Len(species.population) >>

RECURSIVE ProductSeq(_)
ProductSeq(s) == IF s = <<>> THEN 1 ELSE s[1] * ProductSeq(Tail(s))

(* The fitness fractions over the common denominator common. *)
SharesOver(fits, common) ==
    [k \in 1..Len(fits) |-> fits[k][1] * (common \div fits[k][2])]

Shares(fits) == SharesOver(fits, ProductSeq([k \in 1..Len(fits) |-> fits[k][2]]))

(* A faulty variant of Quotas: the share of the population is rounded up. *)
QuotasRoundedUp(species, fits, shares, generation_fitness) ==
    IF species # <<>> /\ generation_fitness = 0
    THEN [err |-> "ZeroDivisionError",
          val |-> [k \in 1..Len(species) |-> [species[k] EXCEPT !.fitness = fits[k]]]]
    ELSE Ok([k \in 1..Len(species) |->
               [species[k] EXCEPT !.fitness = fits[k],
                                  !.max_population =
                    (shares[k] * MAX_POPULATION_SIZE + generation_fitness - 1)
                        \div generation_fitness]])

(* Lines 240-242 with the fitnesses measured: the division by a zero
   generation fitness raises at the first species. *)
Quotas(species, fits, shares, generation_fitness) ==
    IF species # <<>> /\ generation_fitness = 0
    THEN [err |-> "ZeroDivisionError",
          val |-> [k \in 1..Len(species) |-> [species[k] EXCEPT !.fitness = fits[k]]]]
    ELSE Ok([k \in 1..Len(species) |->
               [species[k] EXCEPT !.fitness = fits[k],
                                  !.max_population =
                    (shares[k] * MAX_POPULATION_SIZE) \div generation_fitness]])

Measured(species, fits) == Quotas(species, fits, Shares(fits), SumSeq(Shares(fits)))

(* Generation.assign_offspring: the species with fitness and max_population
   set, or the error. *)
assign_offspring(gheap, species) ==
    Measured(species, [k \in 1..Len(species) |-> get_population_fitness(gheap, species[k])])

(* Line 227. *)
RECURSIVE Champions(_)
Champions(species) ==
    IF species = <<>> THEN <<>>
    ELSE (IF Head(species).champion # None THEN <<Head(species).champion>> ELSE <<>>)
            \o Champions(Tail(species))

Assigned(r) ==
    /\ generation' = [generation EXCEPT !.species = r.val]
    /\ IF r.err # ""
       THEN /\ pc' = IdlePc
            /\ last' = Call(pc.op, None, <<>>, r.err, <<>>)
       ELSE /\ pc' = Pc("breed", pc.op, 1, 0, Champions(r.val))
            /\ last' = last

AssignOffspring ==
    /\ pc.at = "assign"
    /\ Assigned(assign_offspring(genomeObj, generation.species))
    /\ UNCHANGED <<INNOVATION, nodeObj, listObj, connObj, genomeObj, minted, addLog,
                   splitLog, used>>

(* Lines 229-234: one child of the species at pc.s, or on to the next species. *)
BreedChild ==
    /\ pc.at = "breed"
    /\ pc.s <= Len(generation.species)
    /\ IF pc.g >= generation.species[pc.s].max_population
       THEN /\ pc' = [pc EXCEPT !.s = @ + 1, !.g = 0]
            /\ UNCHANGED <<INNOVATION, nodeObj, listObj, connObj, genomeObj, minted,
                           addLog, splitLog>>
       ELSE \E parent1 \in Range(generation.species[pc.s].population),
               parent2 \in Range(generation.species[pc.s].population) :
            \E fit_parent \in Fittest(genomeObj, <<parent1, parent2>>) :
            \E genes \in breed_draws(Store, fit_parent,
                                     BadParent(parent1, parent2, fit_parent)) :
               /\ Commit(breed(Store, parent1, parent2, fit_parent, genes))
               /\ pc' = [pc EXCEPT !.g = @ + 1,
                                   !.next = Append(@, Len(genomeObj) + 1)]
    /\ UNCHANGED <<generation, last, used>>

(* Line 236 with the species of the new generation, or the error of its
   _speciate. *)
Constructed(sp) ==
    IF sp.err # ""
    THEN /\ last' = Call(pc.op, None, <<>>, sp.err, <<>>)
         /\ UNCHANGED generation
    ELSE /\ last' = Call(pc.op, None, <<>>, "", <<>>)
         /\ generation' = Generation(generation.epoch + 1, pc.next, sp.val)

(* Line 236: Generation(next_generation, self). *)
NewGeneration ==
    /\ pc.at = "breed"
    /\ pc.s > Len(generation.species)
    /\ \E draw \in RepresentativeDraws(generation.species) :
          Constructed(Speciate(genomeObj, connObj, pc.next, generation.species, draw))
    /\ pc' = IdlePc
    /\ UNCHANGED <<INNOVATION, nodeObj, listObj, connObj, genomeObj, minted, addLog,
                   splitLog, used>>

AdvanceEpoch ==
    \/ BeginMutate("advance_epoch")
    \/ AssignOffspring
    \/ BreedChild
    \/ NewGeneration

Mutate ==
    \/ BeginMutate("mutate")
    \/ MutateGenome
    \/ EndMutate

-----------------------------------------------------------------------------
(* The program from its start. *)

Init ==
    /\ INNOVATION = 1
    /\ nodeObj = <<>>
    /\ listObj = <<>>
    /\ connObj = <<>>
    /\ genomeObj = <<>>
    /\ generation = Generation(0, <<>>, <<>>)
    /\ pc = Pc("start", "", 0, 0, <<>>)
    /\ last = Call("", None, <<>>, "", <<>>)
    /\ minted = <<>>
    /\ addLog = {}
    /\ splitLog = {}
    /\ used = [calls |-> 0, changes |-> 0, weights |-> 0, epochs |-> 0]

Start ==
    \E input_size \in 1..MaxInputs, output_size \in 1..MaxOutputs :
       Setup(input_size, output_size)

AddConnectionCall ==
    \E g \in AllGenomes :
       \E input_node \in NodeIds(Store, g) \cup {UnknownId},
          output_node \in NodeIds(Store, g) \cup {UnknownId} :
             MutateAddConnection(g, input_node, output_node, DefaultWeight)

AddNodeCall ==
    \E g \in AllGenomes :
       \E connection_innovation \in ConnInnovations(Store, g) \cup {UnknownId} :
             MutateAddNode(g, connection_innovation)

WeightsCall == \E g \in AllGenomes : MutateWeights(g)

FitnessCall == \E g \in AllGenomes, fitness \in 0..MaxFitness : SetFitness(g, fitness)

BreedCall ==
    \E first_parent \in AllGenomes, second_parent \in AllGenomes :
       Breed(first_parent, second_parent)

ChampionCall == \E s \in 1..Len(generation.species) : ChooseChampion(s)

Next ==
    \/ Start
    \/ AddConnectionCall
    \/ AddNodeCall
    \/ WeightsCall
    \/ FitnessCall
    \/ BreedCall
    \/ ChampionCall
    \/ Mutate
    \/ AdvanceEpoch

Spec == Init /\ [][Next]_vars

-----------------------------------------------------------------------------
(* A caller that keeps the ledgers.  Nothing in the module appends to
   Generation.mutated_connections or Generation.mutated_nodes; they are public
   lists, and the tests fill mutated_nodes from outside.  Here the caller
   records what the last call returned. *)

Records == Len(generation.mutated_connections) + Len(generation.mutated_nodes)

ReturnedConnections ==
    IF last.err # "" THEN {}
    ELSE IF last.op = "mutate_add_connection" THEN {last.ret[1]}
    ELSE IF last.op = "mutate_add_node" THEN {last.ret[2], last.ret[3]}
    ELSE {}

RecordConnection(r) ==
    /\ pc.at = "idle"
    /\ Records < MaxRecords
    /\ r \notin Range(generation.mutated_connections)
    /\ generation' = [generation EXCEPT !.mutated_connections = Append(@, r)]
    /\ UNCHANGED <<INNOVATION, nodeObj, listObj, connObj, genomeObj, pc, last, minted,
                   addLog, splitLog, used>>

(* The connection the last mutate_add_node split. *)
SplitConnection ==
    GetConnectionByInnovation(connObj, genomeObj[last.genome].connections, last.args[1])

RecordNode ==
    /\ pc.at = "idle"
    /\ Records < MaxRecords
    /\ last.op = "mutate_add_node"
    /\ last.err = ""
    /\ <<last.ret[1], SplitConnection>> \notin Range(generation.mutated_nodes)
    /\ generation' = [generation EXCEPT
                         !.mutated_nodes = Append(@, <<last.ret[1], SplitConnection>>)]
    /\ UNCHANGED <<INNOVATION, nodeObj, listObj, connObj, genomeObj, pc, last, minted,
                   addLog, splitLog, used>>

LedgerCall ==
    \/ \E r \in ReturnedConnections : RecordConnection(r)
    \/ RecordNode

NextLedger ==
    \/ Start
    \/ AddConnectionCall
    \/ AddNodeCall
    \/ LedgerCall

SpecLedger == Init /\ [][NextLedger]_vars

-----------------------------------------------------------------------------
(* get_gene_differences and get_compatibility_distance on their own: two
   genomes are drawn, every gene list in ascending innovation order, and the
   two functions are applied to them in either order.  The nodes of the genomes
   are left out; neither function reads them. *)

DiffWeights == {1, 5}

DrawnGenomes == UNION {[S -> DiffWeights] : S \in SUBSET (1..MaxGenes)}

RECURSIVE Ascending(_)
Ascending(S) ==
    IF S = {} THEN <<>> ELSE <<MinOrZero(S)>> \o Ascending(S \ {MinOrZero(S)})

GenesIn(order, weight) ==
    [k \in 1..Len(order) |-> Connection(order[k], MaxGenes + 1, order[k], weight[order[k]])]

DrawnGenes(weight) == GenesIn(Ascending(DOMAIN weight), weight)

Disabled(connection) == [connection EXCEPT !.enabled = FALSE]

(* The two parents of the test fixture parent_genomes (Figure 4 of Stanley and
   Miikkulainen); the second connection of both is one object. *)
Figure4Genes ==
    << Connection(1, 4, 1, 1), Disabled(Connection(2, 4, 2, 6)), Connection(3, 4, 3, 7),
       Connection(2, 5, 4, 8), Connection(5, 4, 5, 2), Connection(1, 5, 8, 4),
       Connection(1, 4, 1, 3), Connection(3, 4, 3, 4), Connection(2, 5, 4, 8),
       Disabled(Connection(5, 4, 5, 9)), Connection(5, 6, 6, 1), Connection(6, 4, 7, 6),
       Connection(3, 5, 9, 7), Connection(1, 6, 10, 10) >>

Figure4First == <<1, 2, 3, 4, 5, 6>>

Figure4Second == <<7, 2, 8, 9, 10, 11, 12, 13, 14>>

TwoGenomes(genes, first, second) ==
    /\ INNOVATION = 1 + SetMax({0} \cup {genes[k].innovation : k \in 1..Len(genes)})
    /\ nodeObj = <<>>
    /\ listObj = <<<<>>, <<>>, <<>>, <<>>, <<>>, <<>>>>
    /\ connObj = genes
    /\ genomeObj = <<Genome(1, 2, 3, first), Genome(4, 5, 6, second)>>
    /\ generation = Generation(0, <<>>, <<>>)
    /\ pc = IdlePc
    /\ last = Call("", None, <<>>, "", <<>>)
    /\ minted = <<>>
    /\ addLog = {}
    /\ splitLog = {}
    /\ used = [calls |-> 0, changes |-> 0, weights |-> 0, epochs |-> 0]

Shifted(s, by) == [k \in 1..Len(s) |-> by + k]

(* A genome with as many genes as line 456 asks for to divide by their number,
   of the innovation numbers 1..NormaliseFrom. *)
LongGenes == [k \in 1..NormaliseFrom |-> Connection(k, NormaliseFrom + 1, k, DefaultWeight)]

InitDiff ==
    \/ \E a \in DrawnGenomes, b \in DrawnGenomes :
          TwoGenomes(DrawnGenes(a) \o DrawnGenes(b), Shifted(DrawnGenes(a), 0),
                     Shifted(DrawnGenes(b), Len(DrawnGenes(a))))
    \/ TwoGenomes(Figure4Genes, Figure4First, Figure4Second)
    \/ \E b \in DrawnGenomes :
          TwoGenomes(LongGenes \o DrawnGenes(b), Shifted(LongGenes, 0),
                     Shifted(DrawnGenes(b), Len(LongGenes)))

(* The function returned r.val or raised r.err. *)
Answers(op, first, second, r) ==
    /\ last' = Call(op, first, <<second>>, r.err, r.val)
    /\ UNCHANGED <<INNOVATION, nodeObj, listObj, connObj, genomeObj, generation, pc,
                   minted, addLog, splitLog, used>>

GeneDifferences(first, second) ==
    Answers("get_gene_differences", first, second,
            get_gene_differences(connObj, genomeObj[first].connections,
                                 genomeObj[second].connections))

CompatibilityDistance(first, second) ==
    Answers("get_compatibility_distance", first, second,
            get_compatibility_distance(connObj, genomeObj[first].connections,
                                       genomeObj[second].connections))

(* Lines 192-193 of the tests: the flag is set, then the function called. *)
NormalisedDistance(normalise, first, second) ==
    /\ last' = Call("get_compatibility_distance", first, <<second, normalise>>,
                    CompatibilityDistanceUnder(normalise, connObj,
                        genomeObj[first].connections, genomeObj[second].connections).err,
                    CompatibilityDistanceUnder(normalise, connObj,
                        genomeObj[first].connections, genomeObj[second].connections).val)
    /\ UNCHANGED <<INNOVATION, nodeObj, listObj, connObj, genomeObj, generation, pc,
                   minted, addLog, splitLog, used>>

DifferencesCall ==
    \E first \in AllGenomes, second \in AllGenomes : GeneDifferences(first, second)

DistanceCall ==
    \E first \in AllGenomes, second \in AllGenomes : CompatibilityDistance(first, second)

NormalisedCall ==
    \E first \in AllGenomes, second \in AllGenomes :
       NormalisedDistance(TRUE, first, second)

NextDiff ==
    \/ DifferencesCall
    \/ DistanceCall
    \/ NormalisedCall

SpecDiff == InitDiff /\ [][NextDiff]_vars

-----------------------------------------------------------------------------
(* Species.choose_champion and Species.prune on their own: one species of up
   to MaxMembers genomes, as Species(0, g) and Species.add build it, every
   genome with a fitness. *)

SpeciesOf(members) == [Species(0, 1) EXCEPT !.population = [g \in 1..members |-> g]]

OneSpecies(members, fitness) ==
    /\ INNOVATION = 1
    /\ nodeObj = <<>>
    /\ listObj = [j \in 1..(3 * members) |-> <<>>]
    /\ connObj = <<>>
    /\ genomeObj = [g \in 1..members |->
                       [Genome(3 * g - 2, 3 * g - 1, 3 * g, <<>>)
                           EXCEPT !.fitness = fitness[g]]]
    /\ generation = [Generation(0, [g \in 1..members |-> g], <<>>)
                        EXCEPT !.species = <<SpeciesOf(members)>>]
    /\ pc = IdlePc
    /\ last = Call("", None, <<>>, "", <<>>)
    /\ minted = <<>>
    /\ addLog = {}
    /\ splitLog = {}
    /\ used = [calls |-> 0, changes |-> 0, weights |-> 0, epochs |-> 0]

InitSpecies ==
    \E members \in 1..MaxMembers :
       \E fitness \in [1..members -> 0..MaxFitness] : OneSpecies(members, fitness)

PruneCall == \E s \in 1..Len(generation.species) : Prune(s)

NextSpecies ==
    \/ ChampionCall
    \/ PruneCall

SpecSpecies == InitSpecies /\ [][NextSpecies]_vars

-----------------------------------------------------------------------------
(* Generation.__init__ and _speciate on their own: up to MaxGenomes genomes are
   drawn, each with genes among the innovation numbers 1..MaxSpeciesGenes in
   ascending order and of one weight; a Generation is constructed of them,
   champions are chosen, and a second Generation is constructed of the same
   genomes with the first as previous generation.  Every genome has a gene, as
   the genomes of setup and their offspring have. *)

SpeciesGenomes ==
    {[k \in S |-> w] : S \in (SUBSET (1..MaxSpeciesGenes)) \ {{}}, w \in DiffWeights}

RECURSIVE AllGenes(_)
AllGenes(drawn) ==
    IF drawn = <<>> THEN <<>> ELSE DrawnGenes(Head(drawn)) \o AllGenes(Tail(drawn))

(* The genome number g of the drawn ones refers to its genes in AllGenes. *)
GenomeOf(drawn, g) ==
    Genome(3 * g - 2, 3 * g - 1, 3 * g,
           Shifted(DrawnGenes(drawn[g]), Len(AllGenes(SubSeq(drawn, 1, g - 1)))))

GenomesDrawn(drawn) ==
    /\ INNOVATION = MaxSpeciesGenes + 1
    /\ nodeObj = <<>>
    /\ listObj = [j \in 1..(3 * Len(drawn)) |-> <<>>]
    /\ connObj = AllGenes(drawn)
    /\ genomeObj = [g \in 1..Len(drawn) |-> GenomeOf(drawn, g)]
    /\ generation = Generation(0, <<>>, <<>>)
    /\ pc = Pc("start", "", 0, 0, <<>>)
    /\ last = Call("", None, <<>>, "", <<>>)
    /\ minted = <<>>
    /\ addLog = {}
    /\ splitLog = {}
    /\ used = [calls |-> 0, changes |-> 0, weights |-> 0, epochs |-> 0]

InitSpeciate ==
    \E n \in 1..MaxGenomes : \E drawn \in [1..n -> SpeciesGenomes] : GenomesDrawn(drawn)

(* Lines 201-209 with the outcome of _speciate: the generation, or the error. *)
Speciated(epoch, genomes, sp) ==
    IF sp.err # ""
    THEN /\ last' = Call("Generation", None, <<genomes>>, sp.err, <<>>)
         /\ UNCHANGED generation
    ELSE /\ last' = Call("Generation", None, <<genomes>>, "", <<>>)
         /\ generation' = Generation(epoch, genomes, sp.val)

(* Generation(genomes). *)
Construct ==
    /\ pc.at = "start"
    /\ Speciated(0, [g \in 1..Len(genomeObj) |-> g],
                 Speciate(genomeObj, connObj, [g \in 1..Len(genomeObj) |-> g],
                          <<>>, <<>>))
    /\ pc' = IdlePc
    /\ UNCHANGED <<INNOVATION, nodeObj, listObj, connObj, genomeObj, minted, addLog,
                   splitLog, used>>

(* Generation(previous_gen.genomes, previous_gen). *)
ConstructNext ==
    /\ pc.at = "idle"
    /\ used.epochs < MaxEpoch
    /\ \E draw \in RepresentativeDraws(generation.species) :
          Speciated(generation.epoch + 1, generation.genomes,
                    Speciate(genomeObj, connObj, generation.genomes,
                             generation.species, draw))
    /\ used' = [used EXCEPT !.epochs = @ + 1]
    /\ UNCHANGED <<INNOVATION, nodeObj, listObj, connObj, genomeObj, pc, minted,
                   addLog, splitLog>>

NextSpeciate ==
    \/ Construct
    \/ ChampionCall
    \/ ConstructNext

SpecSpeciate == InitSpeciate /\ [][NextSpeciate]_vars

-----------------------------------------------------------------------------
(* Generation.assign_offspring on its own: up to MaxSpecies species of up to
   MaxSpeciesSize genomes each, as _speciate builds them, every genome with a
   fitness. *)

(* The genomes before those of species k, for the species sizes given. *)
MembersBefore(sizes, k) == SumSeq(SubSeq(sizes, 1, k - 1))

SpeciesAt(sizes, k) ==
    [Species(k - 1, MembersBefore(sizes, k) + 1)
        EXCEPT !.population = [j \in 1..sizes[k] |-> MembersBefore(sizes, k) + j]]

SeveralSpecies(sizes, fitness) ==
    /\ INNOVATION = 1
    /\ nodeObj = <<>>
    /\ listObj = [j \in 1..(3 * SumSeq(sizes)) |-> <<>>]
    /\ connObj = <<>>
    /\ genomeObj = [g \in 1..SumSeq(sizes) |->
                       [Genome(3 * g - 2, 3 * g - 1, 3 * g, <<>>)
                           EXCEPT !.fitness = fitness[g]]]
    /\ generation = [Generation(0, [g \in 1..SumSeq(sizes) |-> g], <<>>)
                        EXCEPT !.species = [k \in 1..Len(sizes) |-> SpeciesAt(sizes, k)]]
    /\ pc = IdlePc
    /\ last = Call("", None, <<>>, "", <<>>)
    /\ minted = <<>>
    /\ addLog = {}
    /\ splitLog = {}
    /\ used = [calls |-> 0, changes |-> 0, weights |-> 0, epochs |-> 0]

InitOffspring ==
    \E n \in 1..MaxSpecies : \E sizes \in [1..n -> 1..MaxSpeciesSize] :
       \E fitness \in [1..SumSeq(sizes) -> 0..MaxFitness] : SeveralSpecies(sizes, fitness)

(* generation.assign_offspring() called by the user of the module. *)
AssignOffspringCall ==
    /\ Idle
    /\ generation' = [generation EXCEPT !.species =
                         assign_offspring(genomeObj, generation.species).val]
    /\ last' = Call("assign_offspring", None, <<>>,
                    assign_offspring(genomeObj, generation.species).err, <<>>)
    /\ OneReading
    /\ UNCHANGED <<INNOVATION, nodeObj, listObj, connObj, genomeObj, pc, minted,
                   addLog, splitLog>>

(* species.get_adjusted_fitness(genome) called by the user of the module. *)
AdjustedFitness(s, g) ==
    /\ Idle
    /\ last' = Call("get_adjusted_fitness", g, <<s>>,
                    get_adjusted_fitness(genomeObj, generation.species[s], g).err,
                    get_adjusted_fitness(genomeObj, generation.species[s], g).val)
    /\ OneReading
    /\ UNCHANGED <<INNOVATION, nodeObj, listObj, connObj, genomeObj, generation, pc,
                   minted, addLog, splitLog>>

AdjustedFitnessCall ==
    \E s \in 1..Len(generation.species), g \in AllGenomes : AdjustedFitness(s, g)

NextOffspring ==
    \/ AssignOffspringCall
    \/ FitnessCall
    \/ AdjustedFitnessCall

SpecOffspring == InitOffspring /\ [][NextOffspring]_vars

-----------------------------------------------------------------------------
(* Genome activation.  The method the tests call, Genome._process_node, is not
   in neatevolve.py; it is modelled after section 4.1 of the specification.
   Values are kept exact: an input value is a number, any other value is the
   modified sigmoid of a sum that is written down, not evaluated, as a constant
   (weights in tenths times input values) plus a weight per value of a source
   node that is itself a sigmoid. *)

NoTerms == [t \in {} |-> 0]

InputValue(n) == [sigmoid |-> FALSE, const |-> n, terms |-> NoTerms]

(* sigmoid(x) = 1 / (1 + exp(-4.9 * x)) of the sum x. *)
sigmoid(x) == [sigmoid |-> TRUE, const |-> x.const, terms |-> x.terms]

CoefficientOf(terms, t) == IF t \in DOMAIN terms THEN terms[t] ELSE 0

AddSums(a, b) ==
    [const |-> a.const + b.const,
     terms |-> [t \in DOMAIN a.terms \cup DOMAIN b.terms |->
                   CoefficientOf(a.terms, t) + CoefficientOf(b.terms, t)]]

(* weight * value. *)
Weighted(weight, value) ==
    IF value.sigmoid
    THEN [const |-> 0, terms |-> [t \in {value} |-> weight]]
    ELSE [const |-> weight * value.const, terms |-> NoTerms]

AddContribution(one, rest) ==
    IF one.err # "" THEN one
    ELSE IF rest.err # "" THEN rest
    ELSE Ok(AddSums(one.val, rest.val))

(* What one incoming connection adds to the sum: nothing when it is disabled,
   its weight times the value of its source node otherwise. *)
Contribution(connection, source, value) ==
    IF ~connection.enabled THEN Ok([const |-> 0, terms |-> NoTerms])
    ELSE IF source = None THEN Raise("ValueError")
    ELSE IF value.err # "" THEN value
    ELSE Ok(Weighted(connection.weight, value.val))

Activated(sum) == IF sum.err # "" THEN sum ELSE Ok(sigmoid(sum.val))

InputIndex(st, g, node) ==
    FirstIndex(st.listObj[st.genomeObj[g].input_nodes], LAMBDA r : r = node)

RECURSIVE process_node(_, _, _, _)
RECURSIVE SumIncoming(_, _, _, _)
(* The value of the source node of a connection. *)
SourceValue(st, g, features, source) ==
    IF source = None THEN Raise("ValueError") ELSE process_node(st, g, features, source)

(* The incoming connection that get_connection found: its source node is looked
   up with get_node. *)
ContributionAt(st, g, features, connection) ==
    IF connection = None THEN Raise("ValueError")
    ELSE Contribution(st.connObj[connection],
                      get_node(st, g, st.connObj[connection].input_node),
                      SourceValue(st, g, features,
                                  get_node(st, g, st.connObj[connection].input_node)))

SumIncoming(st, g, features, incoming) ==
    IF incoming = <<>> THEN Ok([const |-> 0, terms |-> NoTerms])
    ELSE AddContribution(
             ContributionAt(st, g, features,
                 GetConnectionByInnovation(st.connObj, st.genomeObj[g].connections,
                                           Head(incoming))),
             SumIncoming(st, g, features, Tail(incoming)))

(* The value of a node: what activate set for an input node, 0 for a node
   without incoming connections, the sigmoid of the weighted sum otherwise. *)
process_node(st, g, features, node) ==
    IF InputIndex(st, g, node) # 0 THEN Ok(InputValue(features[InputIndex(st, g, node)]))
    ELSE IF st.nodeObj[node].incoming = <<>> THEN Ok(InputValue(0))
    ELSE Activated(SumIncoming(st, g, features, st.nodeObj[node].incoming))

(* The genome of the test fixture genome: the input nodes 1..5, the output
   nodes 6 and 7, the hidden nodes 8..10, every input node connected to every
   hidden node (innovation numbers 11..25) and every hidden node to every output
   node (26..31), all weights 0.5.  Node and connection number k are the
   objects at k. *)
FixtureInputs == 5

FixtureHidden == <<8, 9, 10>>

FixtureOutputs == <<6, 7>>

UnknownNode == 200

FixtureConnections ==
    [k \in 1..21 |->
        IF k <= 15
        THEN Connection(((k - 1) \div 3) + 1, 8 + ((k - 1) % 3), 10 + k, DefaultWeight)
        ELSE Connection(8 + ((k - 16) \div 2), 6 + ((k - 16) % 2), 10 + k, DefaultWeight)]

FixtureNodes ==
    [n \in 1..10 |->
        IF n <= FixtureInputs THEN Node(n)
        ELSE IF n >= 8
        THEN [innovation |-> n, incoming |-> [i \in 1..5 |-> 11 + (i - 1) * 3 + (n - 8)]]
        ELSE [innovation |-> n, incoming |-> [h \in 1..3 |-> 26 + (h - 1) * 2 + (n - 6)]]]

(* The connections in disabled are disabled; the connection rewired (if any)
   has its input node set to a node the genome does not have, as the test
   test_process_node_bad_connection does. *)
FixtureGenome(disabled, rewired) ==
    /\ INNOVATION = 32
    /\ nodeObj = FixtureNodes
    /\ listObj = <<[n \in 1..FixtureInputs |-> n], FixtureHidden, FixtureOutputs>>
    /\ connObj = [k \in 1..21 |->
                     [FixtureConnections[k] EXCEPT
                         !.enabled = k \notin disabled,
                         !.input_node = IF k = rewired THEN UnknownNode ELSE @]]
    /\ genomeObj = <<Genome(1, 2, 3, [k \in 1..21 |-> k])>>
    /\ generation = Generation(0, <<>>, <<>>)
    /\ pc = IdlePc
    /\ last = Call("", None, <<>>, "", <<>>)
    /\ minted = <<>>
    /\ addLog = {}
    /\ splitLog = {}
    /\ used = [calls |-> 0, changes |-> 0, weights |-> 0, epochs |-> 0]

(* No connection, the first one, or the first one into an output node. *)
Rewired == {0, 1, 16}

Features == {<<2, 4, 6, 8, 10>>, <<1, 0, 0, 0, 0>>}

InitActivate ==
    \E disabled \in {D \in SUBSET (1..21) : Cardinality(D) <= MaxDisabled} :
       \E rewired \in Rewired : FixtureGenome(disabled, rewired)

(* Lines 147-151 of the tests: the input values are set and a node processed. *)
ProcessNode(g, node, features) ==
    /\ Idle
    /\ last' = Call("_process_node", g, <<node, features>>,
                    process_node(Store, g, features, node).err,
                    process_node(Store, g, features, node).val)
    /\ OneReading
    /\ UNCHANGED <<INNOVATION, nodeObj, listObj, connObj, genomeObj, generation, pc,
                   minted, addLog, splitLog>>

ProcessNodeCall ==
    \E g \in AllGenomes, features \in Features :
       \E node \in Range(GenomeNodes(Store, g)) : ProcessNode(g, node, features)

NextActivate == ProcessNodeCall

SpecActivate == InitActivate /\ [][NextActivate]_vars

-----------------------------------------------------------------------------
(* get_connection on its own, over the connections of the test fixture genome
   and over that list with two more connections before or after it, one with
   the innovation number of a connection of the list (18), one with the nodes
   of another (1 and 8). *)

SameInnovation == Connection(2, 10, 18, DefaultWeight)

SameNodes == Connection(1, 8, 40, DefaultWeight)

ConnectionLists ==
    { [k \in 1..21 |-> k],
      [k \in 1..21 |-> k] \o <<22, 23>>,
      <<22, 23>> \o [k \in 1..21 |-> k] }

LookupGenome(connections) ==
    /\ INNOVATION = 41
    /\ nodeObj = FixtureNodes
    /\ listObj = <<[n \in 1..FixtureInputs |-> n], FixtureHidden, FixtureOutputs>>
    /\ connObj = FixtureConnections \o <<SameInnovation, SameNodes>>
    /\ genomeObj = <<Genome(1, 2, 3, connections)>>
    /\ generation = Generation(0, <<>>, <<>>)
    /\ pc = IdlePc
    /\ last = Call("", None, <<>>, "", <<>>)
    /\ minted = <<>>
    /\ addLog = {}
    /\ splitLog = {}
    /\ used = [calls |-> 0, changes |-> 0, weights |-> 0, epochs |-> 0]

InitLookup == \E connections \in ConnectionLists : LookupGenome(connections)

(* The arguments of the tests (lines 199-226) and the ones of the two added
   connections. *)
LookupNodes == {NotGiven, 1, 2, 3, 8, 10}

LookupInnovations == {NotGiven, 0, 18, 40, 100}

GetConnection(g, input_node, output_node, innovation) ==
    /\ Idle
    /\ last' = Call("get_connection", g, <<input_node, output_node, innovation>>,
                    get_connection(connObj, genomeObj[g].connections, input_node,
                                   output_node, innovation).err,
                    get_connection(connObj, genomeObj[g].connections, input_node,
                                   output_node, innovation).val)
    /\ OneReading
    /\ UNCHANGED <<INNOVATION, nodeObj, listObj, connObj, genomeObj, generation, pc,
                   minted, addLog, splitLog>>

GetConnectionCall ==
    \E g \in AllGenomes, input_node \in LookupNodes, output_node \in LookupNodes :
       \E innovation \in LookupInnovations :
          GetConnection(g, input_node, output_node, innovation)

NextLookup == GetConnectionCall

SpecLookup == InitLookup /\ [][NextLookup]_vars

-----------------------------------------------------------------------------
(* games/smw.py: SuperMarioWorldWrapper._get_visible_screen. *)

BlocksPerRow == 16
VisibleRows == 16
LastOffsetX == 15
LastOffsetY == 8

(* s[a:b] of Python for 0 <= a: the elements from position a (from 0) up to,
   not including, position b, as far as s has them. *)
Slice(s, a, b) ==
    IF a >= Len(s) \/ b <= a THEN <<>>
    ELSE SubSeq(s, a + 1, IF b > Len(s) THEN Len(s) ELSE b)

(* Line 75, for the row that starts at position i of the two slices. *)
CombinedRow(screen_left, screen_right, offset_x, i) ==
    IF offset_x <= 0 THEN Slice(screen_left, i, i + BlocksPerRow)
    ELSE Slice(screen_left, i + offset_x, i + BlocksPerRow)
            \o Slice(screen_right, i, i + offset_x)

(* Lines 71-75: one row per step of range(0, len(screen_left), 16). *)
CombinedRows(screen_left, screen_right, offset_x) ==
    [r \in 1..((Len(screen_left) + BlocksPerRow - 1) \div BlocksPerRow) |->
        CombinedRow(screen_left, screen_right, offset_x, (r - 1) * BlocksPerRow)]

(* Line 65. *)
ClampOffsetX(offset_x) ==
    IF offset_x > LastOffsetX THEN LastOffsetX ELSE IF offset_x < 0 THEN 0 ELSE offset_x

(* A faulty variant of ClampOffsetY: the offset may reach one row further. *)
ClampOffsetYLate(offset_y) ==
    IF offset_y > LastOffsetY + 1 THEN LastOffsetY + 1
    ELSE IF offset_y < 0 THEN 0 ELSE offset_y

(* Line 66. *)
ClampOffsetY(offset_y) ==
    IF offset_y > LastOffsetY THEN LastOffsetY ELSE IF offset_y < 0 THEN 0 ELSE offset_y

(* Lines 68-69. *)
VisiblePart(screen, offset_y) ==
    Slice(screen, offset_y * BlocksPerRow, (offset_y + VisibleRows) * BlocksPerRow)

(* The rows the generator yields. *)
get_visible_screen(screen_left, screen_right, offset_x, offset_y) ==
    CombinedRows(VisiblePart(screen_left, ClampOffsetY(offset_y)),
                 VisiblePart(screen_right, ClampOffsetY(offset_y)),
                 ClampOffsetX(offset_x))

(* The two screens of the test fixture two_screens, 24 rows each, and two
   screens of the 432 bytes get_tiles reads (27 rows) whose bytes tell their
   positions apart. *)
GroundScreen == [p \in 1..384 |-> IF p > 352 /\ p <= 368 THEN 1 ELSE 0]

StaggeredScreen ==
    [p \in 1..384 |->
        IF (p > 296 /\ p <= 304) \/ (p > 320 /\ p <= 336) \/ (p > 352 /\ p <= 368)
        THEN 1 ELSE 0]

CountingScreen == [p \in 1..432 |-> (p - 1) % 256]

CountingDownScreen == [p \in 1..432 |-> 255 - ((p - 1) % 256)]

ScreenPairs ==
    {<<GroundScreen, StaggeredScreen>>, <<CountingScreen, CountingDownScreen>>,
     <<CountingScreen, StaggeredScreen>>}

(* The offsets of the tests and every offset from below the valid range to
   above it. *)
OffsetsX == (-2..17) \cup {-5, 28}

OffsetsY == (-2..10) \cup {-3, 12, 24}

InitScreen ==
    /\ INNOVATION = 1
    /\ nodeObj = <<>>
    /\ listObj = <<>>
    /\ connObj = <<>>
    /\ genomeObj = <<>>
    /\ generation = Generation(0, <<>>, <<>>)
    /\ pc = IdlePc
    /\ last = Call("", None, <<>>, "", <<>>)
    /\ minted = <<>>
    /\ addLog = {}
    /\ splitLog = {}
    /\ used = [calls |-> 0, changes |-> 0, weights |-> 0, epochs |-> 0]

(* [row for row in wrap._get_visible_screen(left, right, offset_x, offset_y)]. *)
GetVisibleScreen(screens, offset_x, offset_y) ==
    /\ pc.at = "idle"
    /\ used.calls < MaxScreenCalls
    /\ last' = Call("_get_visible_screen", None, <<screens, offset_x, offset_y>>, "",
                    get_visible_screen(screens[1], screens[2], offset_x, offset_y))
    /\ OneReading
    /\ UNCHANGED <<INNOVATION, nodeObj, listObj, connObj, genomeObj, generation, pc,
                   minted, addLog, splitLog>>

VisibleScreenCall ==
    \E screens \in ScreenPairs, offset_x \in OffsetsX, offset_y \in OffsetsY :
       GetVisibleScreen(screens, offset_x, offset_y)

NextScreen == VisibleScreenCall

SpecScreen == InitScreen /\ [][NextScreen]_vars

-----------------------------------------------------------------------------
(* The properties. *)

(* The step is the call of op by the user of the module. *)
IsCall(op) == used'.calls = used.calls + 1 /\ last'.op = op

(* The connection of last.genome that goes from i to o, in the state before. *)
PairBefore(g, i, o) == GetConnectionByNodes(connObj, genomeObj[g].connections, i, o)

(* C1: within one Generation, two different genomes that both added a
   connection for the same (input_node, output_node) pair got the same
   innovation number. *)
C1_SamePairSameInnovation ==
    \A a \in addLog, b \in addLog :
        (a[1] = b[1] /\ a[2] # b[2] /\ a[3] = b[3] /\ a[4] = b[4]) => a[5] = b[5]

(* C2: within one Generation, two genomes that both split the connection with
   the same innovation number got the same node id. *)
C2_SameSplitSameNode ==
    \A a \in splitLog, b \in splitLog :
        (a[1] = b[1] /\ a[2] # b[2] /\ a[3] = b[3]) => a[4] = b[4]

(* C3: mutate_add_connection(i, o) on a genome that has a connection from i to
   o, enabled or not, raises the conflict error and leaves the genomes, the
   nodes, the connections, the ledger and the counter as they were. *)
C3_ConflictChangesNothing ==
    [][(IsCall("mutate_add_connection")
        /\ PairBefore(last'.genome, last'.args[1], last'.args[2]) # None)
       => (last'.err = ConflictError
           /\ UNCHANGED <<INNOVATION, nodeObj, listObj, connObj, genomeObj, generation>>)]_vars

(* A conflict on a pair whose connection is disabled. *)
C3_Witness ==
    /\ last.op = "mutate_add_connection"
    /\ last.err = ConflictError
    /\ ~connObj[GetConnectionByNodes(connObj, genomeObj[last.genome].connections,
                                     last.args[1], last.args[2])].enabled

(* C4: after a successful mutate_add_connection(i, o) the returned connection is
   in the genome's list, is what get_connection finds by its innovation number
   and by (i, o), and its innovation number is the last entry of the incoming
   list of node o. *)
C4_ReturnedConnectionRegistered ==
    (last.op = "mutate_add_connection" /\ last.err = "") =>
        /\ last.ret[1] \in Range(genomeObj[last.genome].connections)
        /\ GetConnectionByInnovation(connObj, genomeObj[last.genome].connections,
                                     connObj[last.ret[1]].innovation) = last.ret[1]
        /\ GetConnectionByNodes(connObj, genomeObj[last.genome].connections,
                                last.args[1], last.args[2]) = last.ret[1]
        /\ nodeObj[get_node(Store, last.genome, last.args[2])].incoming # <<>>
        /\ nodeObj[get_node(Store, last.genome, last.args[2])].incoming[
               Len(nodeObj[get_node(Store, last.genome, last.args[2])].incoming)]
             = connObj[last.ret[1]].innovation

(* The connection a mutate_add_node(c) call splits, in the state before. *)
SplitBefore == GetConnectionByInnovation(connObj, genomeObj[last'.genome].connections,
                                         last'.args[1])

HiddenBefore == listObj[genomeObj[last'.genome].hidden_nodes]

(* C5: mutate_add_node(c) on a genome that has c, from a to b with weight w,
   disables c and keeps it, changes no other connection that existed, adds one
   hidden node n and the two enabled connections a->n with weight 1.0 and n->b
   with weight w at the end of the list. *)
C5_SplitReplacesConnection ==
    [][(IsCall("mutate_add_node") /\ SplitBefore # None)
       => /\ last'.err = ""
          /\ \A r \in 1..Len(connObj) :
                connObj'[r] = IF r = SplitBefore THEN Disabled(connObj[r]) ELSE connObj[r]
          /\ Len(genomeObj'[last'.genome].connections)
               = Len(genomeObj[last'.genome].connections) + 2
          /\ genomeObj'[last'.genome].connections
               = genomeObj[last'.genome].connections \o <<last'.ret[2], last'.ret[3]>>
          /\ last'.ret[2] > Len(connObj)
          /\ last'.ret[3] > Len(connObj)
          /\ last'.ret[2] # last'.ret[3]
          /\ listObj'[genomeObj'[last'.genome].hidden_nodes]
               = Append(HiddenBefore, last'.ret[1])
          /\ last'.ret[1] > Len(nodeObj)
          /\ connObj'[last'.ret[2]].enabled
          /\ connObj'[last'.ret[2]].input_node = connObj[SplitBefore].input_node
          /\ connObj'[last'.ret[2]].output_node = nodeObj'[last'.ret[1]].innovation
          /\ connObj'[last'.ret[2]].weight = SplitWeight
          /\ connObj'[last'.ret[3]].enabled
          /\ connObj'[last'.ret[3]].input_node = nodeObj'[last'.ret[1]].innovation
          /\ connObj'[last'.ret[3]].output_node = connObj[SplitBefore].output_node
          /\ connObj'[last'.ret[3]].weight = connObj[SplitBefore].weight]_vars

(* A split of a connection whose weight is no longer the default. *)
C5_Witness ==
    /\ last.op = "mutate_add_node"
    /\ last.err = ""
    /\ connObj[last.ret[3]].weight # DefaultWeight
    /\ connObj[last.ret[2]].weight = SplitWeight

(* C6: mutate_add_node with an innovation number that no connection of the
   genome has raises the not-found error and leaves the genomes, the nodes, the
   connections, the ledger and the counter as they were. *)
C6_UnknownConnectionNotFound ==
    [][(IsCall("mutate_add_node") /\ SplitBefore = None)
       => (last'.err = NotFoundError
           /\ UNCHANGED <<INNOVATION, nodeObj, listObj, connObj, genomeObj, generation>>)]_vars

(* Every node id and innovation number some object carries. *)
Ids ==
    {nodeObj[r].innovation : r \in 1..Len(nodeObj)}
        \cup {connObj[r].innovation : r \in 1..Len(connObj)}

(* C7: the counter never decreases; the identifiers minted in a step are the
   consecutive counter values it consumed, so each differs from every
   identifier minted before; a successful mutate_add_node takes three
   consecutive values and a successful mutate_add_connection one. *)
C7_CounterMintsFreshIdentifiers ==
    [][/\ INNOVATION' >= INNOVATION
       /\ \A i \in Ids : i < INNOVATION
       /\ Ids' \ Ids \subseteq INNOVATION..(INNOVATION' - 1)
       /\ minted' = minted \o Minted(INNOVATION, INNOVATION' - INNOVATION)
       /\ (IsCall("mutate_add_node") /\ last'.err = "")
            => /\ INNOVATION' = INNOVATION + 3
               /\ nodeObj'[last'.ret[1]].innovation = INNOVATION
               /\ connObj'[last'.ret[2]].innovation = INNOVATION + 1
               /\ connObj'[last'.ret[3]].innovation = INNOVATION + 2
       /\ (IsCall("mutate_add_connection") /\ last'.err = "")
            => /\ INNOVATION' = INNOVATION + 1
               /\ connObj'[last'.ret[1]].innovation = INNOVATION]_vars

(* Both mutations were made after setup. *)
C7_Witness ==
    /\ Cardinality(addLog) = 1
    /\ Cardinality(splitLog) = 1
    /\ Len(minted) = INNOVATION - 1
    /\ INNOVATION > 8

NoDuplicates(s) == \A i \in 1..Len(s), j \in 1..Len(s) : i # j => s[i] # s[j]

(* C8: no two connections of a genome have the same innovation number and no
   two nodes of a genome the same id. *)
C8_UniqueWithinGenome ==
    \A g \in AllGenomes :
        /\ NoDuplicates([k \in 1..Len(genomeObj[g].connections) |->
                            connObj[genomeObj[g].connections[k]].innovation])
        /\ NoDuplicates([k \in 1..Len(GenomeNodes(Store, g)) |->
                            nodeObj[GenomeNodes(Store, g)[k]].innovation])

(* advance_epoch built a generation, and a genome of it has a hidden node. *)
C8_Witness ==
    /\ generation.epoch = 1
    /\ \E g \in Range(generation.genomes) : listObj[genomeObj[g].hidden_nodes] # <<>>

(* The gene lists of the two genomes of the last call. *)
FirstGenes == genomeObj[last.genome].connections

SecondGenes == genomeObj[last.args[1]].connections

IsDifference == last.op \in {"get_gene_differences", "get_compatibility_distance"}

(* The value of the module flag the last call ran under. *)
LastFlag ==
    IF Len(last.args) > 1 THEN last.args[2] ELSE NORMALISE_COMPAT_DISTANCE_FOR_GENE_SIZE

(* C9: for two genomes with non-empty connection lists, get_gene_differences
   and get_compatibility_distance return the same for both argument orders. *)
C9_Symmetric ==
    (IsDifference /\ FirstGenes # <<>> /\ SecondGenes # <<>>) =>
        /\ last.err = ""
        /\ last.op = "get_gene_differences"
             => Ok(last.ret) = get_gene_differences(connObj, SecondGenes, FirstGenes)
        /\ last.op = "get_compatibility_distance"
             => Ok(last.ret) = CompatibilityDistanceUnder(LastFlag, connObj, SecondGenes,
                                                          FirstGenes)

(* Two different genomes with excess, disjoint and matching genes of
   different weight. *)
C9_Witness ==
    /\ last.op = "get_gene_differences"
    /\ last.err = ""
    /\ last.ret[1] > 0
    /\ last.ret[2] > 0
    /\ last.ret[3] > 0
    /\ Len(FirstGenes) # Len(SecondGenes)

(* The numbers of A that are not in B and beyond every number of B. *)
Beyond(A, B) == {i \in A \ B : \A j \in B : i > j}

RECURSIVE WeightGaps(_, _, _, _)
WeightGaps(cheap, first, second, matching) ==
    IF matching = {} THEN 0
    ELSE Abs(cheap[GetConnectionByInnovation(cheap, first, Pick(matching))].weight
             - cheap[GetConnectionByInnovation(cheap, second, Pick(matching))].weight)
         + WeightGaps(cheap, first, second, matching \ {Pick(matching)})

(* C10: get_gene_differences returns; excess + disjoint is the size of the
   symmetric difference of the two sets of innovation numbers, excess counts
   the numbers beyond the other genome's highest, and the weight term is the
   sum of the absolute weight differences of the matching genes; for the
   Figure-4 parents it counts 2 excess and 3 disjoint genes. *)
C10_EveryGeneClassifiedOnce ==
    last.op = "get_gene_differences" =>
        /\ last.err = ""
        /\ last.ret[1] + last.ret[2]
             = Cardinality((Innovations(connObj, FirstGenes)
                                \ Innovations(connObj, SecondGenes))
                           \cup (Innovations(connObj, SecondGenes)
                                \ Innovations(connObj, FirstGenes)))
        /\ last.ret[1]
             = Cardinality(Beyond(Innovations(connObj, FirstGenes),
                                  Innovations(connObj, SecondGenes))
                           \cup Beyond(Innovations(connObj, SecondGenes),
                                       Innovations(connObj, FirstGenes)))
        /\ last.ret[3]
             = WeightGaps(connObj, FirstGenes, SecondGenes,
                          Innovations(connObj, FirstGenes)
                              \cap Innovations(connObj, SecondGenes))
        /\ (connObj = Figure4Genes /\ last.genome = 1 /\ last.args[1] = 2)
             => (last.ret[1] = 2 /\ last.ret[2] = 3 /\ last.ret[3] = 12)

-----------------------------------------------------------------------------
(* (excess, disjoint, weight) of the two genomes of the last call. *)
LastDifferences == get_gene_differences(connObj, FirstGenes, SecondGenes).val

(* The number the excess and disjoint terms of the last call are divided by. *)
LastDivisor ==
    IF Max2(Len(FirstGenes), Len(SecondGenes)) < NormaliseFrom /\ ~LastFlag
    THEN 1 ELSE Max2(Len(FirstGenes), Len(SecondGenes))

(* C11: get_compatibility_distance is (c1 * excess + c2 * disjoint) / N
   + c3 * weight, where N is the length of the longer connection list, or 1
   when that length is below 20 and the normalisation flag is off; the weight
   term is not divided.  The Figure-4 parents are at 5.48, and at 1.03555...
   with the flag on. *)
C11_OnlyGeneCountsNormalised ==
    (last.op = "get_compatibility_distance" /\ last.err = "") =>
        /\ last.ret[2] > 0
        /\ last.ret[1] * LastDivisor
             = (EXCESS_GENES_COEFFICIENT_100 * LastDifferences[1]
                  + DISJOINT_GENES_COEFFICIENT_100 * LastDifferences[2]
                  + WEIGHT_DIFFERENCE_COEFFICIENT_10 * LastDifferences[3] * LastDivisor)
               * last.ret[2]
        /\ (connObj = Figure4Genes /\ last.genome = 1 /\ last.args[1] = 2)
             => last.ret[1] * 9 = (IF LastFlag THEN 932 ELSE 4932) * last.ret[2]

(* The flag is off and a genome has 20 genes: the distance is divided, and
   there are excess genes and a weight difference. *)
C11_Witness ==
    /\ last.op = "get_compatibility_distance"
    /\ last.err = ""
    /\ ~LastFlag
    /\ LastDivisor = NormaliseFrom
    /\ LastDifferences[1] > 0
    /\ LastDifferences[3] > 0

-----------------------------------------------------------------------------
(* The species of the last choose_champion or prune call. *)
LastSpecies == generation.species[last.args[1]]

MaxFitnessIn(population) == SetMax({genomeObj[g].fitness : g \in Range(population)})

(* C12: choose_champion on a non-empty species sets and returns a member of the
   population; in a population of CHAMPION_THRESHOLD or more the member has
   the maximum fitness of the population. *)
C12_ChampionIsMember ==
    (last.op = "choose_champion" /\ LastSpecies.population # <<>>) =>
        /\ last.err = ""
        /\ last.ret[1] \in Range(LastSpecies.population)
        /\ LastSpecies.champion = last.ret[1]
        /\ Len(LastSpecies.population) >= CHAMPION_THRESHOLD
             => genomeObj[last.ret[1]].fitness = MaxFitnessIn(LastSpecies.population)

(* A species at the threshold with two leaders and a weaker member: the
   champion is the second leader. *)
C12_Witness ==
    /\ last.op = "choose_champion"
    /\ Len(LastSpecies.population) >= CHAMPION_THRESHOLD
    /\ \E g \in Range(LastSpecies.population) :
          genomeObj[g].fitness < genomeObj[last.ret[1]].fitness
    /\ \E g \in Range(LastSpecies.population) :
          g < last.ret[1] /\ genomeObj[g].fitness = genomeObj[last.ret[1]].fitness

(* The population of the species a prune call is made on, before and after. *)
PopulationBefore == generation.species[last'.args[1]].population

PopulationAfter == generation'.species[last'.args[1]].population

(* C13: prune on a species of N >= 1 genomes removes exactly
   floor(N * PRUNE_LOW_PERFORMERS_FRACTION) of them, none of them fitter than a
   genome it keeps, and leaves at least one. *)
C13_PruneRemovesLowest ==
    [][(IsCall("prune") /\ PopulationBefore # <<>>)
       => /\ last'.err = ""
          /\ Range(PopulationAfter) \subseteq Range(PopulationBefore)
          /\ Len(PopulationBefore) - Len(PopulationAfter)
               = (Len(PopulationBefore) * PRUNE_LOW_PERFORMERS_FRACTION_100) \div 100
          /\ \A kept \in Range(PopulationAfter) :
                \A removed \in Range(PopulationBefore) \ Range(PopulationAfter) :
                   genomeObj[removed].fitness <= genomeObj[kept].fitness
          /\ PopulationAfter # <<>>]_vars

-----------------------------------------------------------------------------
(* The parents of a breed call: the one get_fittest returned and the other. *)
FitParent == last'.args[3]

WeakParent == BadParent(last'.args[1], last'.args[2], last'.args[3])

HiddenIds(nheap, lheap, genome) == {nheap[r].innovation : r \in Range(lheap[genome.hidden_nodes])}

(* The gene number k of the offspring, of the fitter parent, and the weaker
   parent's gene of the same innovation number (None when it has none). *)
ChildGene(k) == connObj'[genomeObj'[last'.genome].connections[k]]

FitGene(k) == connObj[genomeObj[FitParent].connections[k]]

WeakGene(k) ==
    GetConnectionByInnovation(connObj, genomeObj[WeakParent].connections,
                              FitGene(k).innovation)

(* C14: the offspring of breed(p1, p2) has the hidden nodes of the fitter
   parent and, gene by gene, the innovation numbers and endpoints of the fitter
   parent's connection list; the weight of a gene both parents have is the
   weight of one of the two, the weight of any other gene the fitter
   parent's. *)
C14_OffspringFollowsFitterParent ==
    [][IsCall("breed")
       => /\ last'.err = ""
          /\ FitParent \in {last'.args[1], last'.args[2]}
          /\ genomeObj[FitParent].fitness >= genomeObj[WeakParent].fitness
          /\ HiddenIds(nodeObj', listObj', genomeObj'[last'.genome])
               = HiddenIds(nodeObj, listObj, genomeObj[FitParent])
          /\ Len(genomeObj'[last'.genome].connections)
               = Len(genomeObj[FitParent].connections)
          /\ \A k \in 1..Len(genomeObj[FitParent].connections) :
                /\ ChildGene(k).innovation = FitGene(k).innovation
                /\ ChildGene(k).input_node = FitGene(k).input_node
                /\ ChildGene(k).output_node = FitGene(k).output_node
                /\ ChildGene(k).weight
                     \in {FitGene(k).weight}
                         \cup (IF WeakGene(k) = None THEN {}
                               ELSE {connObj[WeakGene(k)].weight})]_vars

(* The offspring of a first parent without hidden nodes and a second parent
   with one, which get_fittest returned. *)
C14_Witness ==
    /\ last.op = "breed"
    /\ last.args[1] # last.args[3]
    /\ listObj[genomeObj[last.args[3]].hidden_nodes] # <<>>
    /\ listObj[genomeObj[last.args[1]].hidden_nodes] = <<>>
    /\ listObj[genomeObj[last.genome].hidden_nodes] # <<>>

-----------------------------------------------------------------------------
(* What a genome holds: its three node lists, every node with its incoming
   list, and its connections. *)
NodesOf(nheap, list) == [k \in 1..Len(list) |-> nheap[list[k]]]

Holds(nheap, lheap, cheap, genome) ==
    << NodesOf(nheap, lheap[genome.input_nodes]),
       NodesOf(nheap, lheap[genome.hidden_nodes]),
       NodesOf(nheap, lheap[genome.output_nodes]),
       [k \in 1..Len(genome.connections) |-> cheap[genome.connections[k]]] >>

Untouched(h) ==
    Holds(nodeObj', listObj', connObj', genomeObj'[h])
        = Holds(nodeObj, listObj, connObj, genomeObj[h])

IsMutationCall ==
    \/ IsCall("mutate_add_node")
    \/ IsCall("mutate_add_connection")
    \/ IsCall("mutate_weights")

(* The genomes that breed made; the others are the population of setup. *)
Offspring == AllGenomes \ Range(generation.genomes)

(* C15: breed changes nothing that a genome holds, and a mutate_add_node,
   mutate_add_connection or mutate_weights on an offspring changes nothing
   that another genome (its parents among them) holds, nor does one on
   another genome change what an offspring holds. *)
C15_OffspringOwnsItsGenes ==
    [][/\ IsCall("breed") => \A h \in AllGenomes : Untouched(h)
       /\ IsMutationCall
            => \A h \in AllGenomes \ {last'.genome} :
                  (h \in Offspring \/ last'.genome \in Offspring) => Untouched(h)]_vars

-----------------------------------------------------------------------------
(* The ids of the nodes of a list. *)
IdsOf(nheap, list) == {nheap[r].innovation : r \in Range(list)}

(* A genome as setup(inputs, outputs) makes it. *)
IsBaseGenome(nheap, lheap, cheap, genome, inputs, outputs) ==
    /\ Len(lheap[genome.input_nodes]) = inputs
    /\ Len(lheap[genome.output_nodes]) = outputs
    /\ lheap[genome.hidden_nodes] = <<>>
    /\ Len(genome.connections) = inputs * outputs
    /\ {<<cheap[r].input_node, cheap[r].output_node>> : r \in Range(genome.connections)}
         = IdsOf(nheap, lheap[genome.input_nodes])
               \X IdsOf(nheap, lheap[genome.output_nodes])

(* Two genomes have no list, node or connection object in common. *)
Apart(lheap, first, second) ==
    /\ {first.input_nodes, first.hidden_nodes, first.output_nodes}
          \cap {second.input_nodes, second.hidden_nodes, second.output_nodes} = {}
    /\ (Range(lheap[first.input_nodes]) \cup Range(lheap[first.output_nodes]))
          \cap (Range(lheap[second.input_nodes]) \cup Range(lheap[second.output_nodes])) = {}
    /\ Range(first.connections) \cap Range(second.connections) = {}

(* The population of setup, before the first advance_epoch. *)
Seeded == IF generation.epoch = 0 THEN Range(generation.genomes) ELSE {}

(* The step mutates one genome of the loop of Generation.mutate. *)
IsLoopMutation == pc.at = "mutate" /\ pc.s <= Len(generation.species) /\ pc' # pc

(* C16: setup(inputs, outputs) makes MAX_POPULATION_SIZE genomes, each with
   inputs input nodes, outputs output nodes, no hidden node and one connection
   per pair of an input and an output node, no two of them sharing an object;
   a mutation of one of them, by a call or in Generation.mutate, changes
   nothing that another of them holds. *)
C16_SetupGenomesIndependent ==
    [][/\ last'.op = "setup"
            => /\ Len(generation'.genomes) = MAX_POPULATION_SIZE
               /\ \A g \in Range(generation'.genomes) :
                     IsBaseGenome(nodeObj', listObj', connObj', genomeObj'[g],
                                  last'.args[1], last'.args[2])
               /\ \A g \in Range(generation'.genomes) :
                     \A h \in Range(generation'.genomes) \ {g} :
                        Apart(listObj', genomeObj'[g], genomeObj'[h])
       /\ (IsMutationCall /\ last'.genome \in Seeded)
            => \A h \in Seeded \ {last'.genome} : Untouched(h)
       /\ (IsLoopMutation /\ LoopGenome \in Seeded)
            => \A h \in Seeded \ {LoopGenome} : Untouched(h)]_vars

(* A connection of one genome of the population was split and another was
   added to a second genome. *)
C16_Witness ==
    /\ generation.epoch = 0
    /\ Len(generation.genomes) = MAX_POPULATION_SIZE
    /\ \E a \in splitLog, b \in addLog :
          a[2] # b[2] /\ {a[2], b[2]} \subseteq Range(generation.genomes)

-----------------------------------------------------------------------------
(* Steps of advance_epoch: assign_offspring (line 222), and the construction
   of the returned generation (line 236) when it succeeds. *)
IsAssignOffspring == pc.at = "assign" /\ pc' # pc

IsNewGeneration ==
    pc.at = "breed" /\ pc'.at = "idle" /\ generation'.epoch = generation.epoch + 1

(* C17: in advance_epoch every species has chosen its champion when
   assign_offspring runs, and the genome list of the returned generation
   starts with the champions of the species of the current one, in order. *)
C17_ChampionsChosenInEpoch ==
    [][/\ IsAssignOffspring
            => \A k \in 1..Len(generation.species) :
                  generation.species[k].champion
                      \in Range(generation.species[k].population)
       /\ IsNewGeneration
            => \A k \in 1..Len(generation.species) :
                  /\ k <= Len(generation'.genomes)
                  /\ generation'.genomes[k] = generation.species[k].champion]_vars

-----------------------------------------------------------------------------
(* The champions of the species of the generation. *)
ChosenChampions ==
    {generation.species[k].champion : k \in 1..Len(generation.species)} \ {None}

(* The genomes of setup in a later generation: advance_epoch takes only the
   champions over (line 227), and _speciate makes them the representatives of
   the carried species. *)
CarriedChampions ==
    IF generation.epoch = 0 THEN {}
    ELSE {g \in Range(generation.genomes) : g <= MAX_POPULATION_SIZE}

(* The connections of a genome and the ids of its hidden nodes. *)
Genes(nheap, lheap, cheap, genome) ==
    << [k \in 1..Len(genome.connections) |-> cheap[genome.connections[k]]],
       [k \in 1..Len(lheap[genome.hidden_nodes]) |->
           nheap[lheap[genome.hidden_nodes][k]].innovation] >>

(* The step is one of Generation.mutate or of advance_epoch. *)
IsEngineStep == pc.at \notin {"idle", "start"} \/ pc'.at \notin {"idle", "start"}

(* C18: no step of Generation.mutate or advance_epoch changes the connections,
   weights, enabled flags or hidden nodes of a champion, in the generation it
   was chosen in or in the next one, which it represents its species in. *)
C18_ChampionNeverMutated ==
    [][IsEngineStep
       => \A h \in ChosenChampions \cup CarriedChampions :
             Genes(nodeObj', listObj', connObj', genomeObj'[h])
                 = Genes(nodeObj, listObj, connObj, genomeObj[h])]_vars

(* The step is line 236 of advance_epoch, Generation(next_generation, self). *)
IsConstruction == pc.at = "breed" /\ pc.s > Len(generation.species)

(* The species at k of the new generation carries the previous species at k. *)
Carries(new, prev_species) ==
    /\ new.id = prev_species.id
    /\ IF prev_species.champion # None
       THEN new.representative = prev_species.champion
       ELSE new.representative \in Range(prev_species.population)

(* C19: constructing a Generation from the previous one succeeds, and the new
   generation holds, in the same order and under the same id, one species per
   species of the previous generation, represented by that species' champion
   or, when it has none, by a member of its population. *)
C19_SpeciesCarriedOver ==
    [][IsConstruction
       => /\ last'.err = ""
          /\ generation'.epoch = generation.epoch + 1
          /\ Len(generation'.species) >= Len(generation.species)
          /\ \A k \in 1..Len(generation.species) :
                Carries(generation'.species[k], generation.species[k])]_vars

(* The step constructs a Generation on its own. *)
IsSpeciation == last'.op = "Generation" /\ (pc.at = "start" \/ used'.epochs # used.epochs)

(* The species a construction starts from: those of the previous generation, or
   the one of the first genome. *)
CarriedSpecies == IF pc.at = "start" THEN 1 ELSE Len(generation.species)

DistanceTo(g, species) ==
    get_compatibility_distance(connObj, genomeObj[g].connections,
                               genomeObj[species.representative].connections)

Within(g, species) == WithinThreshold(DistanceTo(g, species))

Occurrences(species, g) ==
    Cardinality({<<j, k>> \in (1..Len(species)) \X (1..MaxGenomes) :
                    k <= Len(species[j].population) /\ species[j].population[k] = g})

(* Every member of species j but its representative is within the threshold of
   the representative, and of no representative before it in the list. *)
JoinedFirstMatch(species, j) ==
    \A k \in 2..Len(species[j].population) :
       /\ Within(species[j].population[k], species[j])
       /\ \A i \in 1..(j - 1) : ~Within(species[j].population[k], species[i])

(* The species j was started by a genome that matched none of the species
   before it, under the id after the last one's. *)
StartedUnmatched(species, j) ==
    /\ species[j].id = species[j - 1].id + 1
    /\ species[j].population[1] = species[j].representative
    /\ \A i \in 1..(j - 1) : ~Within(species[j].representative, species[i])

(* C20: a construction puts every genome in exactly one species; a genome that
   is not a representative is in the first species of the list whose
   representative is within COMPATIBILITY_THRESHOLD of it; a genome that
   matches none starts a species at the end of the list, with the id of the
   last species plus 1; the ids of the species are pairwise distinct. *)
C20_FirstMatchSpeciation ==
    [][IsSpeciation
       => /\ last'.err = ""
          /\ \A g \in Range(generation'.genomes) :
                Occurrences(generation'.species, g) = 1
          /\ \A j \in 1..Len(generation'.species) :
                JoinedFirstMatch(generation'.species, j)
          /\ \A j \in (CarriedSpecies + 1)..Len(generation'.species) :
                StartedUnmatched(generation'.species, j)
          /\ \A i \in 1..Len(generation'.species), j \in 1..Len(generation'.species) :
                i # j => generation'.species[i].id # generation'.species[j].id]_vars

(* The distance a is smaller than the distance b. *)
Closer(a, b) == a.val[1] * b.val[2] < b.val[1] * a.val[2]

(* A generation was constructed of genomes in which a genome joined the first
   species within the threshold although a species started before the genome
   was placed, later in the list, is within it too, and closer. *)
C20_Witness ==
    /\ last.op = "Generation"
    /\ last.err = ""
    /\ generation.epoch = 0
    /\ \E j \in 1..Len(generation.species), i \in 1..Len(generation.species) :
          /\ j < i
          /\ \E k \in 2..Len(generation.species[j].population) :
                /\ generation.species[j].population[k] > generation.species[i].representative
                /\ Within(generation.species[j].population[k], generation.species[i])
                /\ Closer(DistanceTo(generation.species[j].population[k],
                                     generation.species[i]),
                          DistanceTo(generation.species[j].population[k],
                                     generation.species[j]))

(* The sum of the members' fitness of species k, and its population size. *)
FitnessSum(k) ==
    SumSeq([j \in 1..Len(generation.species[k].population) |->
               genomeObj[generation.species[k].population[j]].fitness])

Size(k) == Len(generation.species[k].population)

(* The product of the sizes of all species but k. *)
OtherSizes(k) ==
    ProductSeq([j \in 1..Len(generation.species) |-> IF j = k THEN 1 ELSE Size(j)])

(* The population fitness of species k and the generation fitness, both times
   the product of all population sizes. *)
ScaledFitness(k) == FitnessSum(k) * OtherSizes(k)

ScaledTotal == SumSeq([k \in 1..Len(generation.species) |-> ScaledFitness(k)])

(* q = floor((population fitness of k / generation fitness) * MAX_POPULATION_SIZE). *)
IsQuota(q, k) ==
    /\ q * ScaledTotal <= ScaledFitness(k) * MAX_POPULATION_SIZE
    /\ ScaledFitness(k) * MAX_POPULATION_SIZE < (q + 1) * ScaledTotal

QuotaSum(species) == SumSeq([k \in 1..Len(species) |-> species[k].max_population])

(* C21: assign_offspring on a generation of positive total fitness returns, sets
   every species' quota to the floor of its share of the generation fitness
   times MAX_POPULATION_SIZE, and the quotas sum to at most MAX_POPULATION_SIZE. *)
C21_QuotasWithinPopulation ==
    [][IsCall("assign_offspring") /\ ScaledTotal > 0
       => /\ last'.err = ""
          /\ \A k \in 1..Len(generation.species) :
                IsQuota(generation'.species[k].max_population, k)
          /\ QuotaSum(generation'.species) <= MAX_POPULATION_SIZE]_vars

(* assign_offspring returned quotas that sum to less than MAX_POPULATION_SIZE,
   for species of which one earned a quota. *)
C21_Witness ==
    /\ last.op = "assign_offspring"
    /\ last.err = ""
    /\ QuotaSum(generation.species) < MAX_POPULATION_SIZE
    /\ QuotaSum(generation.species) > 0

(* The species the last call was made on. *)
CalledSpecies == generation.species[last.args[1]]

(* C22: get_adjusted_fitness of a member returns its fitness over the size of
   the population; of a genome that is not in the population it raises and
   changes nothing. *)
C22_AdjustedFitnessOfMembers ==
    [][IsCall("get_adjusted_fitness")
       => IF last'.genome \in Range(generation.species[last'.args[1]].population)
          THEN /\ last'.err = ""
               /\ last'.ret = <<genomeObj[last'.genome].fitness,
                                Len(generation.species[last'.args[1]].population)>>
          ELSE /\ last'.err # ""
               /\ UNCHANGED <<INNOVATION, nodeObj, listObj, connObj, genomeObj,
                              generation, minted>>]_vars

(* get_adjusted_fitness raised for a genome that looks like a member of the
   species, same fitness and same genes, and is a different object. *)
C22_Witness ==
    /\ last.op = "get_adjusted_fitness"
    /\ last.err = "ValueError"
    /\ \E m \in Range(CalledSpecies.population) :
          /\ m # last.genome
          /\ genomeObj[m].fitness = genomeObj[last.genome].fitness
          /\ genomeObj[m].connections = genomeObj[last.genome].connections

(* The step is one of Generation.mutate(), called on a generation in which no
   genome has been given a connection or a node since setup. *)
IsMutateOfSetup ==
    /\ pc.at = "mutate"
    /\ pc.op = "mutate"
    /\ generation.epoch = 0
    /\ Mutations = 0

(* C23: Generation.mutate() on a generation as setup made it raises nothing: the
   pair it gives to mutate_add_connection is not connected yet in the genome,
   the innovation number it gives to mutate_add_node is one of the genome's. *)
C23_MutateRaisesNothing == [][IsMutateOfSetup => last'.err = ""]_vars

(* The connections of the genome that lead into the node id and are enabled. *)
EnabledInto(id) ==
    {k \in Range(genomeObj[1].connections) :
        connObj[k].output_node = id /\ connObj[k].enabled}

IsInput(id) == id \in {nodeObj[r].innovation : r \in Range(listObj[genomeObj[1].input_nodes])}

(* Some connection that the value of the node id needs comes from a node the
   genome does not have. *)
RECURSIVE SourceMissing(_)
SourceMissing(id) ==
    /\ ~IsInput(id)
    /\ \E k \in EnabledInto(id) :
          \/ connObj[k].input_node \notin NodeIds(Store, 1)
          \/ SourceMissing(connObj[k].input_node)

(* The sum of the weights of the connections in into that satisfy Test. *)
WeightsOf(into, Test(_)) ==
    SumSeq([k \in 1..Len(connObj) |->
               IF k \in into /\ Test(k) THEN connObj[k].weight ELSE 0])

(* The value the claim gives the node id under the input values features. *)
RECURSIVE ValueOf(_, _)
ValueOf(features, id) ==
    IF IsInput(id) THEN InputValue(features[id])
    ELSE sigmoid([const |-> SumSeq([k \in 1..Len(connObj) |->
                                      IF k \in EnabledInto(id) /\ IsInput(connObj[k].input_node)
                                      THEN connObj[k].weight * features[connObj[k].input_node]
                                      ELSE 0]),
                  terms |-> [t \in {ValueOf(features, connObj[k].input_node) :
                                      k \in {j \in EnabledInto(id) :
                                                ~IsInput(connObj[j].input_node)}} |->
                               WeightsOf(EnabledInto(id),
                                   LAMBDA k : /\ ~IsInput(connObj[k].input_node)
                                              /\ ValueOf(features, connObj[k].input_node) = t)]])

(* C24: the value of a node is the modified sigmoid of the sum, over its enabled
   incoming connections, of the weight times the value of the source node,
   an input node having the value it was given; processing it fails when such a
   connection comes from a node that is not in the genome. *)
C24_NodeValueIsSigmoidOfWeightedSum ==
    [][IsCall("_process_node")
       => IF SourceMissing(nodeObj[last'.args[1]].innovation)
          THEN last'.err # ""
          ELSE /\ last'.err = ""
               /\ last'.ret = ValueOf(last'.args[2], nodeObj[last'.args[1]].innovation)]_vars

(* An output node was processed, into which a disabled connection leads. *)
C24_Witness ==
    /\ last.op = "_process_node"
    /\ last.err = ""
    /\ last.args[1] \in Range(listObj[genomeObj[1].output_nodes])
    /\ \E k \in Range(genomeObj[1].connections) :
          /\ connObj[k].output_node = nodeObj[last.args[1]].innovation
          /\ ~connObj[k].enabled

(* found is the first connection of the list that satisfies Test, None when no
   connection of the list does. *)
IsFirstOf(connections, found, Test(_)) ==
    \/ /\ found = None
       /\ \A i \in 1..Len(connections) : ~Test(connObj[connections[i]])
    \/ \E i \in 1..Len(connections) :
          /\ found = connections[i]
          /\ Test(connObj[connections[i]])
          /\ \A j \in 1..(i - 1) : ~Test(connObj[connections[j]])

(* C25: get_connection returns the first connection with the innovation number
   asked for; without an innovation number, the first one with the input and
   the output node asked for; None when there is no such connection; and it
   raises exactly when no innovation number and not both nodes are given. *)
C25_GetConnectionFirstMatch ==
    [][IsCall("get_connection")
       => IF last'.args[3] # NotGiven
          THEN /\ last'.err = ""
               /\ IsFirstOf(genomeObj[last'.genome].connections, last'.ret,
                            LAMBDA c : c.innovation = last'.args[3])
          ELSE IF last'.args[1] # NotGiven /\ last'.args[2] # NotGiven
          THEN /\ last'.err = ""
               /\ IsFirstOf(genomeObj[last'.genome].connections, last'.ret,
                            LAMBDA c : /\ c.input_node = last'.args[1]
                                       /\ c.output_node = last'.args[2])
          ELSE last'.err # ""]_vars

(* get_connection was given an innovation number that two connections of the
   list have, and nodes as well, and returned a connection. *)
C25_Witness ==
    /\ last.op = "get_connection"
    /\ last.err = ""
    /\ last.ret # None
    /\ last.args[1] # NotGiven
    /\ last.args[2] # NotGiven
    /\ Cardinality({i \in 1..Len(genomeObj[last.genome].connections) :
                       connObj[genomeObj[last.genome].connections[i]].innovation
                           = last.args[3]}) = 2

(* v brought into lo..hi. *)
Clamped(v, lo, hi) == IF v < lo THEN lo ELSE IF v > hi THEN hi ELSE v

(* The byte at column c (from 1) of row r (from 1) of a screen. *)
ByteAt(screen, r, c) == screen[(r - 1) * BlocksPerRow + c]

(* The byte the claim puts at column c of the visible row r, for offsets within
   their ranges. *)
VisibleByte(screens, x, y, r, c) ==
    IF c <= BlocksPerRow - x THEN ByteAt(screens[1], y + r, x + c)
    ELSE ByteAt(screens[2], y + r, c - (BlocksPerRow - x))

(* C26: for two screens of at least 24 rows of 16 bytes and any offsets,
   _get_visible_screen yields 16 rows of 16 bytes; with the offsets brought into
   0..15 and 0..8, each row is the last 16 - offset_x bytes of the left screen's
   row followed by the first offset_x bytes of the right screen's row. *)
C26_VisibleScreenIsSixteenBySixteen ==
    [][IsCall("_get_visible_screen")
       => /\ Len(last'.ret) = 16
          /\ \A r \in 1..Len(last'.ret) :
                /\ Len(last'.ret[r]) = 16
                /\ \A c \in 1..Len(last'.ret[r]) :
                      last'.ret[r][c]
                          = VisibleByte(last'.args[1], Clamped(last'.args[2], 0, 15),
                                        Clamped(last'.args[3], 0, 8), r, c)]_vars

(* The screens of the tests were combined with offsets beyond their ranges,
   and a row holds an empty block of the left screen before a solid one of the
   right screen. *)
C26_Witness ==
    /\ last.op = "_get_visible_screen"
    /\ last.args[1] = <<GroundScreen, StaggeredScreen>>
    /\ last.args[2] > 15
    /\ last.args[3] > 8
    /\ \E r \in 1..Len(last.ret) : last.ret[r][1] = 0 /\ last.ret[r][16] = 1

(* The places, species and position in its population, where g is a member. *)
PlacesOf(species, g) ==
    UNION {{<<j, k>> : k \in {i \in 1..Len(species[j].population) :
                                 species[j].population[i] = g}} :
           j \in 1..Len(species)}

(* The species of the generation partition its genomes. *)
SpeciesPartitionGenomes ==
    /\ \A i \in 1..Len(generation.genomes) :
          Cardinality(PlacesOf(generation.species, generation.genomes[i])) = 1
    /\ \A j \in 1..Len(generation.species) :
          /\ Range(generation.species[j].population) \subseteq Range(generation.genomes)
          /\ generation.species[j].population # <<>>
          /\ generation.species[j].representative
                \in Range(generation.species[j].population)

(* C27: in a Generation that was constructed, of genomes alone or from a
   previous generation, every genome is in the population of exactly one
   species, no population holds a genome that is not in the generation, and
   every species has a population, with its representative in it. *)
C27_SpeciesPartitionGenomes ==
    (last.op = "Generation" /\ last.err = "") => SpeciesPartitionGenomes

(* A generation was constructed from a previous one into several species, one
   of them with several members. *)
C27_Witness ==
    /\ last.op = "Generation"
    /\ last.err = ""
    /\ generation.epoch = 1
    /\ Len(generation.species) > 1
    /\ \E j \in 1..Len(generation.species) : Len(generation.species[j].population) > 1

(* C28: a generation that advance_epoch returns, carried-over champions and
   bred offspring together, has at most MAX_POPULATION_SIZE genomes. *)
C28_PopulationNeverExceedsMaximum ==
    [][(IsConstruction /\ last'.err = "")
          => Len(generation'.genomes) <= MAX_POPULATION_SIZE]_vars

(* prune is called on the species that choose_champion was just called on. *)
IsPruneAfterChampion ==
    /\ last.op = "choose_champion"
    /\ IsCall("prune")
    /\ last'.args = last.args

(* C29: after choose_champion and then prune on the same species, the fitness
   values untouched in between, the champion is still in the population of
   the species. *)
C29_ChampionSurvivesPrune ==
    [][IsPruneAfterChampion
          => generation'.species[last.args[1]].champion
                \in Range(generation'.species[last.args[1]].population)]_vars

(* The nodes of a genome: the members of its three node lists. *)
NodeRefs(g) ==
    Range(listObj[genomeObj[g].input_nodes])
        \cup Range(listObj[genomeObj[g].hidden_nodes])
        \cup Range(listObj[genomeObj[g].output_nodes])

(* The genome has a connection of this innovation number into this node. *)
HasConnectionInto(g, innovation, node) ==
    \E c \in Range(genomeObj[g].connections) :
       /\ connObj[c].innovation = innovation
       /\ connObj[c].output_node = nodeObj[node].innovation

(* C30: in every genome that setup, mutate_add_connection, mutate_add_node
   and breed have made, every innovation number in the incoming list of a
   node is the innovation number of a connection of that genome whose
   output_node is the node. *)
C30_IncomingRefersToOwnConnections ==
    \A g \in AllGenomes : \A n \in NodeRefs(g) :
       \A k \in 1..Len(nodeObj[n].incoming) :
          HasConnectionInto(g, nodeObj[n].incoming[k], n)

====
